---- MODULE Spec2Model ----
(***************************************************************************)
(* Model of the question -> intent -> plan -> chart pipeline of Anarisuto: *)
(*   backend/app/mcp/gemini_client.py     rule-based extractor, parse_intent*)
(*   backend/app/query_planner/planner.py plan_intent                      *)
(*   backend/app/query_planner/catalog.py INTENTS                          *)
(*   backend/app/api/routes.py            query, _derive_title             *)
(*                                                                         *)
(* Text is modelled by TLA+ strings (ASCII), so substring tests, strips,   *)
(* splits and the regular expressions of the source are computed on the    *)
(* characters.  Python values are tagged records:                          *)
(*   [t |-> "none"], [t |-> "int", i |-> n], [t |-> "bool", b |-> TRUE],   *)
(*   [t |-> "str", s |-> "x"], [t |-> "list", l |-> <<...>>],              *)
(*   [t |-> "dict", d |-> [key |-> value, ...]].                           *)
(***************************************************************************)
EXTENDS Integers, Sequences, FiniteSets, TLC

VARIABLES
    pc,         \* position of the request handler / of the function under study
    question,   \* QueryRequest.question
    settings,   \* app.settings.settings: [llm_mode, gemini_api_key]
    intent,     \* the intent payload returned by parse_intent / _stub_parse
    plan,       \* the PlannedQuery returned by plan_intent, or the error raised
    response,   \* what query() answers: a chart, an HTTP error report
    executions, \* number of conn.execute calls of the current request
    reports,    \* number of error reports raised for the current request
    catalog,    \* catalog.INTENTS, the dict every request of the process reads
    hashfirst,  \* the dimension this process's set of str yields first
    source,     \* who produced intent: "stub", "remote", "" while there is none
    failure,    \* the step of parse_intent's remote path that failed, "" if none
    raw,        \* argument of _normalize_category
    normalized  \* result of _normalize_category

vars == <<pc, question, settings, intent, plan, response, executions, reports,
          hashfirst, catalog, source, failure, raw, normalized>>

----------------------------------------------------------------------------
(* Local names                                                             *)

\* name = v, then Body(name): the value is computed once, as an assignment
\* to a local variable does, and Body reads it as often as it likes
Let(v, Body(_)) == CHOOSE r \in {Body(b) : b \in {v}} : TRUE

----------------------------------------------------------------------------
(* Characters and strings                                                  *)

Ch(s, i) == SubSeq(s, i, i)

\* str.strip() / str.split() / \s : the ASCII whitespace characters
Whitespace == {" ", "\t", "\n", "\r"}

LowerLetters == "abcdefghijklmnopqrstuvwxyz"
UpperLetters == "ABCDEFGHIJKLMNOPQRSTUVWXYZ"
DigitChars == "0123456789"

LowerSet == {Ch(LowerLetters, i) : i \in 1..Len(LowerLetters)}
UpperSet == {Ch(UpperLetters, i) : i \in 1..Len(UpperLetters)}
DigitSet == {Ch(DigitChars, i) : i \in 1..Len(DigitChars)}

ToLowerMap == [c \in UpperSet |->
    Ch(LowerLetters, CHOOSE i \in 1..Len(UpperLetters) : Ch(UpperLetters, i) = c)]
ToUpperMap == [c \in LowerSet |->
    Ch(UpperLetters, CHOOSE i \in 1..Len(LowerLetters) : Ch(LowerLetters, i) = c)]

LowerCh(c) == IF c \in UpperSet THEN ToLowerMap[c] ELSE c
UpperCh(c) == IF c \in LowerSet THEN ToUpperMap[c] ELSE c

RECURSIVE MapStr(_, _, _)
MapStr(s, i, toLower) ==
    IF i > Len(s) THEN ""
    ELSE (IF toLower THEN LowerCh(Ch(s, i)) ELSE UpperCh(Ch(s, i)))
         \o MapStr(s, i + 1, toLower)

\* str.lower()
Lower(s) == MapStr(s, 1, TRUE)

\* regular expression class \w (ASCII part)
IsWord(c) == c \in LowerSet \cup UpperSet \cup DigitSet \cup {"_"}
IsDigit(c) == c \in DigitSet
IsSpace(c) == c \in Whitespace

\* k in s
Contains(s, k) ==
    \E i \in 1..(Len(s) - Len(k) + 1) : SubSeq(s, i, i + Len(k) - 1) = k

\* any(k in s for k in ks)
ContainsAny(s, ks) == \E k \in ks : Contains(s, k)

\* s[i:].startswith(k), positions from 1
StartsAt(s, i, k) ==
    i >= 1 /\ i + Len(k) - 1 <= Len(s) /\ SubSeq(s, i, i + Len(k) - 1) = k

RECURSIVE LStripFrom(_, _, _)
LStripFrom(s, i, cs) ==
    IF i <= Len(s) /\ Ch(s, i) \in cs THEN LStripFrom(s, i + 1, cs) ELSE i

RECURSIVE RStripFrom(_, _, _)
RStripFrom(s, j, cs) ==
    IF j >= 1 /\ Ch(s, j) \in cs THEN RStripFrom(s, j - 1, cs) ELSE j

\* str.strip(chars): drop the leading and trailing characters that are in cs
StripChars(s, cs) ==
    LET i == LStripFrom(s, 1, cs)
        j == RStripFrom(s, Len(s), cs)
    IN  IF i > j THEN "" ELSE SubSeq(s, i, j)

\* str.strip()
Strip(s) == StripChars(s, Whitespace)

\* str.split(): the maximal runs of non-whitespace characters, in order
RECURSIVE SplitFrom(_, _)
SplitFrom(s, i) ==
    LET a == LStripFrom(s, i, Whitespace)
        RECURSIVE WordEnd(_)
        WordEnd(k) == IF k <= Len(s) /\ ~IsSpace(Ch(s, k)) THEN WordEnd(k + 1) ELSE k
        b == WordEnd(a)
    IN  IF a > Len(s) THEN <<>> ELSE <<SubSeq(s, a, b - 1)>> \o SplitFrom(s, b)

Split(s) == SplitFrom(s, 1)

\* sep.join(words)
RECURSIVE Join(_, _)
Join(sep, words) ==
    IF words = <<>> THEN ""
    ELSE IF Len(words) = 1 THEN words[1]
    ELSE words[1] \o sep \o Join(sep, Tail(words))

\* str.capitalize(): first character upper-cased, the rest lower-cased
Capitalize(w) ==
    IF w = "" THEN "" ELSE UpperCh(Ch(w, 1)) \o Lower(SubSeq(w, 2, Len(w)))

----------------------------------------------------------------------------
(* Python values                                                           *)

None == [t |-> "none"]
PyInt(n) == [t |-> "int", i |-> n]
PyBool(b) == [t |-> "bool", b |-> b]
PyStr(s) == [t |-> "str", s |-> s]
PyList(l) == [t |-> "list", l |-> l]
PyDict(d) == [t |-> "dict", d |-> d]

\* the empty dict {}: a function with empty domain
EmptyMap == [k \in {} |-> None]

----------------------------------------------------------------------------
(* gemini_client._normalize_category                                       *)

QuoteChars == {"\"", "'"}
TrimChars == {" ", ".", ",", ":", ";", "(", ")", "[", "]", "{", "}"}

\* _normalize_category(raw): raw is None or a str value
_normalize_category(r) ==
    IF r = None \/ r = PyStr("") THEN None
    ELSE Let(StripChars(Strip(r.s), QuoteChars), LAMBDA s1 :
         Let(StripChars(s1, TrimChars), LAMBDA s2 :
             IF s2 = "" THEN None
             ELSE Let(Split(s2), LAMBDA ws :
                  PyStr(Join(" ", [k \in 1..Len(ws) |-> Capitalize(ws[k])])))))

----------------------------------------------------------------------------
(* Numbers in text                                                         *)

DigitVal(c) == CHOOSE n \in 0..(Len(DigitChars) - 1) : Ch(DigitChars, n + 1) = c

\* int(s) for a string of decimal digits
RECURSIVE ParseInt(_)
ParseInt(s) ==
    IF s = "" THEN 0
    ELSE ParseInt(SubSeq(s, 1, Len(s) - 1)) * Len(DigitChars) + DigitVal(Ch(s, Len(s)))

\* str(n) for an int
RECURSIVE IntToStr(_)
IntToStr(n) ==
    IF n < 0 THEN "-" \o IntToStr(-n)
    ELSE IF n < Len(DigitChars) THEN Ch(DigitChars, n + 1)
    ELSE IntToStr(n \div Len(DigitChars)) \o Ch(DigitChars, (n % Len(DigitChars)) + 1)

SetMin(S) == Let(S, LAMBDA T : CHOOSE x \in T : \A y \in T : x <= y)

SetMax(S) == Let(S, LAMBDA T : CHOOSE x \in T : \A y \in T : y <= x)

\* greedy \s* from position i: the first position at or after i that holds no whitespace
SkipWs(s, i) == LStripFrom(s, i, Whitespace)

\* greedy \d+ from position i: the position after the run of digits
DigitsEnd(s, i) == LStripFrom(s, i, DigitSet)

\* \b at position i (between characters i-1 and i)
WordBoundary(s, i) ==
    LET before == i >= 2 /\ i - 1 <= Len(s) /\ IsWord(Ch(s, i - 1))
        after == i >= 1 /\ i <= Len(s) /\ IsWord(Ch(s, i))
    IN  before # after

\* (20\d{2}) at position i
Year4At(s, i) ==
    /\ StartsAt(s, i, "20")
    /\ i + 3 <= Len(s)
    /\ IsDigit(Ch(s, i + 2))
    /\ IsDigit(Ch(s, i + 3))

Year4(s, i) == ParseInt(SubSeq(s, i, i + 3))

----------------------------------------------------------------------------
(* gemini_client._extract_year, _extract_two_years, _extract_limit         *)

YearStart == 2015
YearStop == 2031

\* the years of range(2015, 2031) whose decimal form occurs in text
YearsFound(text) == {y \in YearStart..(YearStop - 1) : Contains(text, IntToStr(y))}

_extract_year(text) ==
    Let(YearsFound(text), LAMBDA found :
        IF found = {} THEN None ELSE PyInt(SetMin(found)))

\* variant: sorted(set(found), reverse=True)[:2], the two largest, descending
_extract_two_years_largest(text) ==
    Let(YearsFound(text), LAMBDA unique :
        IF Cardinality(unique) >= 2
        THEN Let(SetMax(unique), LAMBDA y1 :
                 PyList(<<PyInt(y1), PyInt(SetMax(unique \ {y1}))>>))
        ELSE None)

\* sorted(set(found))[:2] when at least two years are found
_extract_two_years(text) ==
    Let(YearsFound(text), LAMBDA unique :
        IF Cardinality(unique) >= 2
        THEN Let(SetMin(unique), LAMBDA y1 :
                 PyList(<<PyInt(y1), PyInt(SetMin(unique \ {y1}))>>))
        ELSE None)

\* re.search(r"top\s+(\d+)", text), then int(group 1)
_extract_limit(text) ==
    Let({i \in 1..Len(text) :
            /\ StartsAt(text, i, "top")
            /\ SkipWs(text, i + 3) > i + 3
            /\ SkipWs(text, i + 3) <= Len(text)
            /\ IsDigit(Ch(text, SkipWs(text, i + 3)))}, LAMBDA hits :
        IF hits = {} THEN None
        ELSE Let(SkipWs(text, SetMin(hits) + 3), LAMBDA d0 :
                 PyInt(ParseInt(SubSeq(text, d0, DigitsEnd(text, d0) - 1)))))

----------------------------------------------------------------------------
(* gemini_client._extract_year_range                                       *)

\* (20\d{2})\s*[-]\s*(20\d{2}) matched at i.  The source's class also holds
\* the en dash, which is outside the ASCII text modelled here.
DashRangeAt(s, i) ==
    /\ Year4At(s, i)
    /\ SkipWs(s, i + 4) <= Len(s)
    /\ Ch(s, SkipWs(s, i + 4)) = "-"
    /\ Year4At(s, SkipWs(s, SkipWs(s, i + 4) + 1))

DashRangeTo(s, i) == SkipWs(s, SkipWs(s, i + 4) + 1)

RangeWords == {"to", "through", "thru"}

\* (20\d{2})\s+(?:to|through|thru)\s+(20\d{2}) matched at i with the word w
WordRangeAt(s, i, w) ==
    /\ Year4At(s, i)
    /\ SkipWs(s, i + 4) > i + 4
    /\ StartsAt(s, SkipWs(s, i + 4), w)
    /\ SkipWs(s, SkipWs(s, i + 4) + Len(w)) > SkipWs(s, i + 4) + Len(w)
    /\ Year4At(s, SkipWs(s, SkipWs(s, i + 4) + Len(w)))

WordRangeTo(s, i, w) == SkipWs(s, SkipWs(s, i + 4) + Len(w))

\* <word>\s+(20\d{2}) matched at i: "from", "to" and the head of "between"
WordThenYearAt(s, i, w) ==
    /\ StartsAt(s, i, w)
    /\ SkipWs(s, i + Len(w)) > i + Len(w)
    /\ Year4At(s, SkipWs(s, i + Len(w)))

WordThenYearPos(s, i, w) == SkipWs(s, i + Len(w))

\* between\s+(20\d{2})\s+and\s+(20\d{2}) matched at i
BetweenAt(s, i) ==
    /\ WordThenYearAt(s, i, "between")
    /\ SkipWs(s, WordThenYearPos(s, i, "between") + 4)
          > WordThenYearPos(s, i, "between") + 4
    /\ WordThenYearAt(s, SkipWs(s, WordThenYearPos(s, i, "between") + 4), "and")

BetweenTo(s, i) ==
    WordThenYearPos(s, SkipWs(s, WordThenYearPos(s, i, "between") + 4), "and")

\* returns the pair <<year_from, year_to>>, each None or an int
_extract_year_range(text) ==
    Let({i \in 1..Len(text) : DashRangeAt(text, i)}, LAMBDA dash :
    IF dash # {}
    THEN Let(SetMin(dash), LAMBDA i :
             <<PyInt(Year4(text, i)), PyInt(Year4(text, DashRangeTo(text, i)))>>)
    ELSE
    Let({i \in 1..Len(text) : \E w \in RangeWords : WordRangeAt(text, i, w)},
        LAMBDA word :
    IF word # {}
    THEN Let(SetMin(word), LAMBDA i :
         Let(CHOOSE x \in RangeWords : WordRangeAt(text, i, x), LAMBDA w :
             <<PyInt(Year4(text, i)), PyInt(Year4(text, WordRangeTo(text, i, w)))>>))
    ELSE
    Let({i \in 1..Len(text) : BetweenAt(text, i)}, LAMBDA betw :
    IF betw # {}
    THEN Let(SetMin(betw), LAMBDA i :
             <<PyInt(Year4(text, WordThenYearPos(text, i, "between"))),
               PyInt(Year4(text, BetweenTo(text, i)))>>)
    ELSE
    Let({i \in 1..Len(text) : WordThenYearAt(text, i, "from")}, LAMBDA from :
    Let({i \in 1..Len(text) : WordThenYearAt(text, i, "to")}, LAMBDA to :
        <<IF from = {} THEN None
          ELSE PyInt(Year4(text, WordThenYearPos(text, SetMin(from), "from"))),
          IF to = {} THEN None
          ELSE PyInt(Year4(text, WordThenYearPos(text, SetMin(to), "to")))>>)))))

----------------------------------------------------------------------------
(* gemini_client._extract_category                                         *)

\* the class [\w &/\-]
IsCatChar(c) == IsWord(c) \/ c \in {" ", "&", "/", "-"}

\* the position after the maximal run of class characters that starts at i
RECURSIVE CatRunEnd(_, _)
CatRunEnd(s, i) ==
    IF i <= Len(s) /\ IsCatChar(Ch(s, i)) THEN CatRunEnd(s, i + 1) ELSE i

\* \s+category\b matched right after position e (the last character of the group)
CategoryAfter(l, e) ==
    /\ SkipWs(l, e + 1) > e + 1
    /\ StartsAt(l, SkipWs(l, e + 1), "category")
    /\ WordBoundary(l, SkipWs(l, e + 1) + 8)

\* \b(?:only\s+)?in matched so that "in" stands at q (l is lower-cased)
InAt(l, q) ==
    /\ StartsAt(l, q, "in")
    /\ \/ WordBoundary(l, q)
       \/ \E p \in 1..(q - 5) :
            /\ StartsAt(l, p, "only")
            /\ WordBoundary(l, p)
            /\ SkipWs(l, p + 4) = q

\* ([\w &/\-]+?)\s+category\b after a greedy \s+ that began at w0: the
\* group as <<first, last>>, or <<>>.  The \s+ is tried longest first, the
\* lazy group shortest first.
LazyGroup(l, w0) ==
    Let({g \in (w0 + 1)..SkipWs(l, w0) :
            \E e \in g..(CatRunEnd(l, g) - 1) : CategoryAfter(l, e)}, LAMBDA starts :
        IF starts = {} THEN <<>>
        ELSE Let(SetMax(starts), LAMBDA g :
                 <<g, SetMin({x \in g..(CatRunEnd(l, g) - 1) : CategoryAfter(l, x)})>>))

\* \b(?:only\s+)?in\s+the\s+([\w &/\-]+?)\s+category\b with "in" at q
InTheGroup(l, q) ==
    Let(SkipWs(l, q + 2), LAMBDA the :
        IF InAt(l, q) /\ the > q + 2 /\ StartsAt(l, the, "the")
        THEN LazyGroup(l, the + 3)
        ELSE <<>>)

\* \b(?:only\s+)?in\s+([\w &/\-]+?)\s+category\b with "in" at q
InGroup(l, q) == IF InAt(l, q) THEN LazyGroup(l, q + 2) ELSE <<>>

\* \bcategory\s*[:=]?\s*([\w &/\-]+)\b with "category" at p: the greedy
\* group is cut back to its last word character
CategoryGroup(l, p) ==
    IF ~(StartsAt(l, p, "category") /\ WordBoundary(l, p)) THEN <<>>
    ELSE
    Let(SkipWs(l, p + 8), LAMBDA a :
    Let(IF a <= Len(l) /\ Ch(l, a) \in {":", "="} THEN SkipWs(l, a + 1) ELSE a,
        LAMBDA b :
    Let({e \in b..(CatRunEnd(l, b) - 1) : IsWord(Ch(l, e))}, LAMBDA ends :
        IF ends # {} THEN <<b, SetMax(ends)>> ELSE <<>>)))

\* re.IGNORECASE: positions are found on the lower-cased text, the group is
\* cut from the text as given
CategoryMatch(l) ==
    Let({q \in 1..Len(l) : InTheGroup(l, q) # <<>>}, LAMBDA m1 :
    IF m1 # {} THEN InTheGroup(l, SetMin(m1))
    ELSE
    Let({q \in 1..Len(l) : InGroup(l, q) # <<>>}, LAMBDA m2 :
    IF m2 # {} THEN InGroup(l, SetMin(m2))
    ELSE
    Let({p \in 1..Len(l) : CategoryGroup(l, p) # <<>>}, LAMBDA m3 :
    IF m3 # {} THEN CategoryGroup(l, SetMin(m3))
    ELSE <<>>)))

_extract_category(text) ==
    Let(Strip(text), LAMBDA t :
    Let(Lower(t), LAMBDA l :
    Let(CategoryMatch(l), LAMBDA m :
        IF m = <<>> THEN None
        ELSE _normalize_category(PyStr(SubSeq(t, m[1], m[2]))))))

\* _mentions_comparison(text)
_mentions_comparison(text) ==
    ContainsAny(Lower(text), {" vs ", " versus ", "compare ", "comparison"})

----------------------------------------------------------------------------
(* Python dicts as functions from keys to values                           *)

\* d.get(k)
Get(d, k) == IF k \in DOMAIN d THEN d[k] ELSE None

\* d[k] = v
Put(d, k, v) == (k :> v) @@ d

\* if v is not None: d[k] = v
PutIfSet(d, k, v) == IF v = None THEN d ELSE Put(d, k, v)

\* {**a, **b}, a.update(b): the keys of b win
Merge(a, b) == b @@ a

----------------------------------------------------------------------------
(* gemini_client._stub_parse                                               *)

\* re.search(r"\"([^\"]+)\"", question): group 1 as <<first, last>>, or <<>>
QuotedGroup(s) ==
    Let({i \in 1..Len(s) : Ch(s, i) = "\""}, LAMBDA quotes :
    Let({i \in quotes : (\E j \in quotes : j > i)
                         /\ SetMin({j \in quotes : j > i}) > i + 1}, LAMBDA opens :
        IF opens = {} THEN <<>>
        ELSE Let(SetMin(opens), LAMBDA i :
                 <<i + 1, SetMin({j \in quotes : j > i}) - 1>>)))

\* the payload dict every rule builds
Payload(name, dimension, filters, chart) ==
    [intent |-> PyStr(name),
     metrics |-> PyList(<<PyStr("total_revenue")>>),
     dimensions |-> PyList(<<PyStr(dimension)>>),
     filters |-> PyDict(filters),
     chart |-> PyStr(chart)]

NamesEntity(q) ==
    Contains(q, "product") \/ Contains(q, "products")
    \/ Contains(q, "category") \/ Contains(q, "categories")

\* the entity in the plural, as the question spells it
EntityOfPlural(q) ==
    IF Contains(q, "category") \/ Contains(q, "categories") THEN "categories" ELSE "products"

EntityOf(q) ==
    IF Contains(q, "category") \/ Contains(q, "categories") THEN "category" ELSE "product"

\* _extract_limit(q) or fallback
LimitOr(q, fallback) ==
    Let(_extract_limit(q), LAMBDA limit :
        IF limit = None \/ limit = PyInt(0) THEN PyInt(fallback) ELSE limit)

TopFallbackLimit == 10
BottomFallbackLimit == 5
LastYearsCount == 3
AverageYearsCount == 5

\* rule 1: grouping by category
GroupByCategoryRule(q) ==
    ContainsAny(q, {"by category", "per category", "group by category",
                    "grouped by category", "breakdown by category"})

\* rule 2: top performers
TopRule(q) ==
    /\ Contains(q, "top") \/ Contains(q, "best-selling") \/ Contains(q, "best selling")
    /\ NamesEntity(q)

\* rule 3: bottom performers
BottomRule(q) ==
    ContainsAny(q, {"worst", "lowest", "bottom"}) /\ NamesEntity(q)

\* rule 4: breakdown for a year
BreakdownRule(q) ==
    /\ ContainsAny(q, {"break down", "breakdown", "category-wise", "category wise"})
    /\ _extract_year(q) # None

\* rule 5 taken only when both ends of the range are found
RangeRuleClosed(q) ==
    Let(_extract_year_range(q), LAMBDA yr : yr[1] # None /\ yr[2] # None)

\* rule 5: a year range
RangeRule(q) ==
    Let(_extract_year_range(q), LAMBDA yr : yr[1] # None \/ yr[2] # None)

\* rules 6 and 7: two years with comparison or delta language
CompareRule(text, q) ==
    /\ _extract_two_years(q) # None
    /\ \/ _mentions_comparison(text)
       \/ ContainsAny(q, {"gap", "difference", "increase", "decrease"})

LastThreeRule(q) == ContainsAny(q, {"last 3 years", "last three years"})

AverageRule(q) == Contains(q, "average") /\ (Contains(q, "year") \/ Contains(q, "yearly"))

TotalRule(q) ==
    /\ ContainsAny(q, {"total sales", "total revenue", "how much did we sell",
                       "how much revenue"})
    /\ _extract_year(q) # None

ByProductRule(q) ==
    ContainsAny(q, {"which products", "by product", "across all products", "rank products"})

ByCategoryRule(q) ==
    ContainsAny(q, {"category generates", "between categories",
                    "categories performing", "different categories"})

OverviewRule(q) ==
    ContainsAny(q, {"overall", "overview", "how are we doing", "sales performance",
                    "business performing"})

\* the body of the year-range rule
RangeIntent(text, q, base) ==
    Let(_extract_year_range(q), LAMBDA yr :
    Let(Merge(PutIfSet(PutIfSet(EmptyMap, "year_from", yr[1]), "year_to", yr[2]),
              base), LAMBDA filters :
    Let(QuotedGroup(text), LAMBDA m :
        IF m # <<>> /\ (Contains(q, "trend") \/ Contains(q, "over time")
                        \/ Contains(q, "year by year"))
        THEN Payload("product_sales_trend", "year",
                     Put(filters, "product_name",
                         PyStr(Strip(SubSeq(text, m[1], m[2])))), "line")
        ELSE IF ContainsAny(q, {"year-over-year", "year over year", "yoy", "growth",
                                "declin"})
        THEN Payload("sales_growth_analysis", "year", filters, "line")
        ELSE Payload("sales_trend_over_time", "year", filters, "line"))))

_stub_parse(text) ==
    Let(Lower(text), LAMBDA q :
    Let(PutIfSet(EmptyMap, "category", _extract_category(text)), LAMBDA base :
    Let(_extract_year(q), LAMBDA year :
        IF GroupByCategoryRule(q)
        THEN Payload("sales_by_category", "category", PutIfSet(base, "year", year), "bar")
        ELSE IF TopRule(q)
        THEN Payload("top_bottom_performers", EntityOf(q),
                     PutIfSet(Merge(base, [limit |-> LimitOr(q, TopFallbackLimit),
                                           order |-> PyStr("top"),
                                           entity |-> PyStr(EntityOf(q))]),
                              "year", year), "bar")
        ELSE IF BottomRule(q)
        THEN Payload("top_bottom_performers", EntityOf(q),
                     PutIfSet(Merge(base, [limit |-> LimitOr(q, BottomFallbackLimit),
                                           order |-> PyStr("bottom"),
                                           entity |-> PyStr(EntityOf(q))]),
                              "year", year), "bar")
        ELSE IF BreakdownRule(q)
        THEN Payload("sales_breakdown_for_year", EntityOf(q), Put(base, "year", year), "bar")
        ELSE IF RangeRule(q)
        THEN RangeIntent(text, q, base)
        ELSE IF CompareRule(text, q)
        THEN Payload("sales_comparison_by_year", "year",
                     Merge([years |-> _extract_two_years(q)], base), "bar")
        ELSE IF LastThreeRule(q)
        THEN Payload("multi_year_comparison", "year",
                     Merge(base, [year_count |-> PyInt(LastYearsCount)]), "bar")
        ELSE IF AverageRule(q)
        THEN Payload("multi_year_comparison", "year",
                     Merge(base, [year_count |-> PyInt(AverageYearsCount),
                                  average |-> PyBool(TRUE)]), "bar")
        ELSE IF TotalRule(q)
        THEN Payload("total_sales_for_period", "year", Put(base, "year", year), "bar")
        ELSE IF ByProductRule(q)
        THEN Payload("sales_by_product", "product", PutIfSet(base, "year", year), "bar")
        ELSE IF ByCategoryRule(q)
        THEN Payload("sales_by_category", "category", PutIfSet(base, "year", year), "bar")
        ELSE IF OverviewRule(q)
        THEN Payload("clarification_required", "year", EmptyMap, "line")
        ELSE Payload("sales_trend_over_time", "year", base, "line"))))

----------------------------------------------------------------------------
(* catalog.INTENTS                                                         *)

IntentSpec(metrics, dimensions, chart) ==
    [allowed_metrics |-> metrics, allowed_dimensions |-> dimensions, default_chart |-> chart]

INTENTS ==
    [sales_trend |-> IntentSpec({"total_revenue"}, {"year"}, "line"),
     sales_comparison |-> IntentSpec({"total_revenue"}, {"year"}, "bar"),
     revenue_by_category |-> IntentSpec({"total_revenue"}, {"category"}, "bar"),
     top_products |-> IntentSpec({"total_revenue"}, {"product"}, "bar"),
     sales_comparison_by_year |-> IntentSpec({"total_revenue"}, {"year"}, "bar"),
     sales_trend_over_time |-> IntentSpec({"total_revenue"}, {"year"}, "line"),
     total_sales_for_period |-> IntentSpec({"total_revenue"}, {"year"}, "bar"),
     sales_by_product |-> IntentSpec({"total_revenue"}, {"product"}, "bar"),
     product_sales_trend |-> IntentSpec({"total_revenue"}, {"year"}, "line"),
     sales_by_category |-> IntentSpec({"total_revenue"}, {"category"}, "bar"),
     top_bottom_performers |-> IntentSpec({"total_revenue"}, {"product", "category"}, "bar"),
     sales_breakdown_for_year |-> IntentSpec({"total_revenue"}, {"product", "category"}, "bar"),
     sales_growth_analysis |-> IntentSpec({"total_revenue"}, {"year"}, "line"),
     clarification_required |-> IntentSpec({"total_revenue"}, {"year"}, "line"),
     multi_year_comparison |-> IntentSpec({"total_revenue"}, {"year"}, "bar")]

IntentNames == DOMAIN INTENTS

----------------------------------------------------------------------------
(* Python's tests on values, as plan_intent uses them                      *)

\* isinstance(v, int): bool is a subclass of int
IsInt(v) == v.t \in {"int", "bool"}
IsStr(v) == v.t = "str"
IsList(v) == v.t = "list"
IsDict(v) == v.t = "dict"

\* the number an int or bool compares as
IntVal(v) == IF v.t = "int" THEN v.i ELSE IF v.b THEN 1 ELSE 0

\* bool(v)
Truthy(v) ==
    CASE v.t = "none" -> FALSE
      [] v.t = "int" -> v.i # 0
      [] v.t = "bool" -> v.b
      [] v.t = "str" -> v.s # ""
      [] v.t = "list" -> v.l # <<>>
      [] v.t = "dict" -> DOMAIN v.d # {}

\* a or b
Or(a, b) == IF Truthy(a) THEN a ELSE b

\* hash(v) raises TypeError
Unhashable(v) == v.t \in {"list", "dict"}

\* v == s for a str literal s
IsStrOf(v, s) == v.t = "str" /\ v.s = s

\* isinstance(v, str) and v.strip()
NonBlankStr(v) == IsStr(v) /\ Strip(v.s) # ""

\* str(v) for None, int, bool and str values; repr for the elements of a list
RECURSIVE PyToStr(_, _)
PyToStr(v, quoted) ==
    CASE v.t = "none" -> "None"
      [] v.t = "int" -> IntToStr(v.i)
      [] v.t = "bool" -> (IF v.b THEN "True" ELSE "False")
      [] v.t = "str" -> (IF quoted THEN "'" \o v.s \o "'" ELSE v.s)
      [] v.t = "list" ->
           "[" \o Join(", ", [k \in 1..Len(v.l) |-> PyToStr(v.l[k], TRUE)]) \o "]"

Returned(v) == [raises |-> "", value |-> v]
Raised(exception, message) == [raises |-> exception, message |-> message]

----------------------------------------------------------------------------
(* planner.plan_intent: the pieces the branches share                      *)

PlannedQuery(sql, params, chart) ==
    [sql |-> sql, params |-> params, chart_type |-> chart,
     label_field |-> "label", value_field |-> "value", series_field |-> None]

\* where / params / join_products while a branch builds them
Building(params, join) == [where |-> <<>>, params |-> params, join |-> join]

\* where.append(clause) without the params[key] = value that goes with it
BindClauseOnly(acc, clause, key, value) ==
    [acc EXCEPT !.where = Append(@, clause)]

\* where.append(clause); params[key] = value
Bind(acc, clause, key, value) ==
    [acc EXCEPT !.where = Append(@, clause), !.params = Put(@, key, value)]

\* if isinstance(year_from, int): ...  if isinstance(year_to, int): ...
WithYearRange(acc, f) ==
    LET a == IF IsInt(Get(f, "year_from"))
             THEN Bind(acc, "s.year >= :year_from", "year_from", Get(f, "year_from"))
             ELSE acc
    IN  IF IsInt(Get(f, "year_to"))
        THEN Bind(a, "s.year <= :year_to", "year_to", Get(f, "year_to"))
        ELSE a

\* if isinstance(years, list) and years: ... else: the range
WithYearsOrRange(acc, f) ==
    IF IsList(Get(f, "years")) /\ Truthy(Get(f, "years"))
    THEN Bind(acc, "s.year = ANY(:years)", "years", Get(f, "years"))
    ELSE WithYearRange(acc, f)

\* if isinstance(year, int): ... else: the range
WithYearOrRange(acc, f) ==
    IF IsInt(Get(f, "year"))
    THEN Bind(acc, "s.year = :year", "year", Get(f, "year"))
    ELSE WithYearRange(acc, f)

WithProductId(acc, f) ==
    IF IsInt(Get(f, "product_id"))
    THEN Bind(acc, "s.product_id = :product_id", "product_id", Get(f, "product_id"))
    ELSE acc

\* if isinstance(category, str) and category.strip(): ...
WithCategory(acc, f) ==
    IF NonBlankStr(Get(f, "category"))
    THEN [Bind(acc, "lower(p.category) = lower(:category)", "category",
               PyStr(Strip(Get(f, "category").s))) EXCEPT !.join = TRUE]
    ELSE acc

\* name = product_name.strip(); if "%" not in name: name = f"%{name}%"
LikePattern(name) ==
    IF Contains(Strip(name), "%") THEN Strip(name) ELSE "%" \o Strip(name) \o "%"

WithProductName(acc, f) ==
    IF NonBlankStr(Get(f, "product_name"))
    THEN [Bind(acc, "p.name ILIKE :product_name", "product_name",
               PyStr(LikePattern(Get(f, "product_name").s))) EXCEPT !.join = TRUE]
    ELSE acc

\* [str(c).strip().lower() for c in categories if str(c).strip()]
RECURSIVE CleanedCategories(_)
CleanedCategories(l) ==
    IF l = <<>> THEN <<>>
    ELSE LET c == Strip(PyToStr(Head(l), FALSE))
         IN  (IF c = "" THEN <<>> ELSE <<PyStr(Lower(c))>>) \o CleanedCategories(Tail(l))

\* elif isinstance(categories, list) and categories: ...
WithCategoryOrCategories(acc, f) ==
    IF NonBlankStr(Get(f, "category")) THEN WithCategory(acc, f)
    ELSE IF IsList(Get(f, "categories")) /\ Truthy(Get(f, "categories"))
            /\ CleanedCategories(Get(f, "categories").l) # <<>>
    THEN [Bind(acc, "lower(p.category) = ANY(:categories)", "categories",
               PyList(CleanedCategories(Get(f, "categories").l))) EXCEPT !.join = TRUE]
    ELSE acc

WhereSql(where) == IF where = <<>> THEN "" ELSE "WHERE " \o Join(" AND ", where)

JoinSql(join) == IF join THEN "JOIN products p ON p.id = s.product_id" ELSE ""

\* the lines of an SQL text
Sql(lines) == Join("\n", lines)

\* variant: a limit out of range is clamped to the nearest bound
LimitClamped(limit, most, default) ==
    IF ~IsInt(limit) THEN PyInt(default)
    ELSE IF IntVal(limit) <= 0 THEN PyInt(1)
    ELSE IF IntVal(limit) > most THEN PyInt(most)
    ELSE limit

\* if not isinstance(limit, int) or limit <= 0 or limit > most: limit = default
LimitOrDefault(limit, most, default) ==
    IF ~IsInt(limit) \/ IntVal(limit) <= 0 \/ IntVal(limit) > most
    THEN PyInt(default)
    ELSE limit

MaxProductLimit == 100
DefaultProductLimit == 20
MaxPerformersLimit == 50
DefaultPerformersLimit == 5
MaxTopProductsLimit == 50
DefaultTopProductsLimit == 10
MaxYearCount == 20
DefaultYearCount == 3

----------------------------------------------------------------------------
(* planner.plan_intent: one operator per branch; f is the filters dict     *)

\* sales_trend, sales_comparison, sales_trend_over_time
PlanTrend(f, chart) ==
    LET join == Truthy(Or(Or(Get(f, "category"), Get(f, "categories")),
                          Get(f, "product_name")))
        acc == WithProductName(WithCategoryOrCategories(WithProductId(
                   WithYearsOrRange(Building(EmptyMap, join), f), f), f), f)
    IN  Returned(PlannedQuery(
            Sql(<<"SELECT s.year::TEXT AS label,",
                  "SUM(s.revenue)::NUMERIC AS value",
                  "FROM sales s",
                  JoinSql(acc.join),
                  WhereSql(acc.where),
                  "GROUP BY s.year",
                  "ORDER BY s.year ASC">>), acc.params, chart))

\* yr_list = sorted(set(yr_list)) of the int ones of year_from, year_to
YearList(f) ==
    LET a == Get(f, "year_from")
        b == Get(f, "year_to")
    IN  IF IsInt(a) /\ IsInt(b)
        THEN IF IntVal(a) = IntVal(b) THEN <<a>>
             ELSE IF IntVal(a) < IntVal(b) THEN <<a, b>> ELSE <<b, a>>
        ELSE IF IsInt(a) THEN <<a>>
        ELSE IF IsInt(b) THEN <<b>>
        ELSE <<>>

WithYearsOrYearList(acc, f) ==
    IF IsList(Get(f, "years")) /\ Truthy(Get(f, "years"))
    THEN Bind(acc, "s.year = ANY(:years)", "years", Get(f, "years"))
    ELSE IF YearList(f) # <<>>
    THEN Bind(acc, "s.year = ANY(:years)", "years", PyList(YearList(f)))
    ELSE acc

PlanComparisonByYear(f, chart) ==
    LET join == Truthy(Or(Get(f, "category"), Get(f, "product_name")))
        acc == WithProductName(WithCategory(WithProductId(
                   WithYearsOrYearList(Building(EmptyMap, join), f), f), f), f)
    IN  Returned(PlannedQuery(
            Sql(<<"SELECT s.year::TEXT AS label,",
                  "SUM(s.revenue)::NUMERIC AS value",
                  "FROM sales s",
                  JoinSql(acc.join),
                  WhereSql(acc.where),
                  "GROUP BY s.year",
                  "ORDER BY s.year ASC">>), acc.params, chart))

\* label = str(year) / f"{year_from}-{year_to}" / "total"
TotalLabel(f) ==
    IF IsInt(Get(f, "year")) THEN PyToStr(Get(f, "year"), FALSE)
    ELSE IF IsInt(Get(f, "year_from")) /\ IsInt(Get(f, "year_to"))
    THEN PyToStr(Get(f, "year_from"), FALSE) \o "-" \o PyToStr(Get(f, "year_to"), FALSE)
    ELSE "total"

PlanTotal(f, chart) ==
    LET join == Truthy(Or(Get(f, "category"), Get(f, "product_name")))
        acc == WithProductName(WithCategory(WithProductId(
                   WithYearOrRange(Building(EmptyMap, join), f), f), f), f)
    IN  Returned(PlannedQuery(
            Sql(<<"SELECT :label::TEXT AS label,",
                  "COALESCE(SUM(s.revenue), 0)::NUMERIC AS value",
                  "FROM sales s",
                  JoinSql(acc.join),
                  WhereSql(acc.where)>>),
            Put(acc.params, "label", PyStr(TotalLabel(f))), chart))

PlanByProduct(f, chart) ==
    LET limit == LimitOrDefault(Get(f, "limit"), MaxProductLimit, DefaultProductLimit)
        acc == WithCategory(WithYearOrRange(Building([limit |-> limit], TRUE), f), f)
    IN  Returned(PlannedQuery(
            Sql(<<"SELECT p.name AS label,",
                  "SUM(s.revenue)::NUMERIC AS value",
                  "FROM sales s",
                  "JOIN products p ON p.id = s.product_id",
                  WhereSql(acc.where),
                  "GROUP BY p.name",
                  "ORDER BY value DESC",
                  "LIMIT :limit">>), acc.params, chart))

\* variant: the elif tests isinstance(product_name, str) alone, so a blank
\* name is bound as the pattern %%
PlanProductTrendAnyName(f, chart) ==
    LET ranged == WithYearRange(Building(EmptyMap, TRUE), f)
        acc == IF IsInt(Get(f, "product_id")) THEN WithProductId(ranged, f)
               ELSE [Bind(ranged, "p.name ILIKE :product_name", "product_name",
                          PyStr(LikePattern(Get(f, "product_name").s)))
                        EXCEPT !.join = TRUE]
    IN  IF ~IsInt(Get(f, "product_id")) /\ ~IsStr(Get(f, "product_name"))
        THEN Raised("QueryPlannerError",
                    "product_sales_trend requires product_id or product_name")
        ELSE Returned(PlannedQuery(
            Sql(<<"SELECT s.year::TEXT AS label,",
                  "SUM(s.revenue)::NUMERIC AS value",
                  "FROM sales s",
                  "JOIN products p ON p.id = s.product_id",
                  WhereSql(acc.where),
                  "GROUP BY s.year",
                  "ORDER BY s.year ASC">>), acc.params, chart))

\* if isinstance(product_id, int): ... elif product_name ...: ... else: raise
PlanProductTrend(f, chart) ==
    LET ranged == WithYearRange(Building(EmptyMap, TRUE), f)
        acc == IF IsInt(Get(f, "product_id")) THEN WithProductId(ranged, f)
               ELSE WithProductName(ranged, f)
    IN  IF ~IsInt(Get(f, "product_id")) /\ ~NonBlankStr(Get(f, "product_name"))
        THEN Raised("QueryPlannerError",
                    "product_sales_trend requires product_id or product_name")
        ELSE Returned(PlannedQuery(
            Sql(<<"SELECT s.year::TEXT AS label,",
                  "SUM(s.revenue)::NUMERIC AS value",
                  "FROM sales s",
                  "JOIN products p ON p.id = s.product_id",
                  WhereSql(acc.where),
                  "GROUP BY s.year",
                  "ORDER BY s.year ASC">>), acc.params, chart))

PlanByCategory(f, chart) ==
    LET acc == WithYearOrRange(Building(EmptyMap, TRUE), f)
    IN  Returned(PlannedQuery(
            Sql(<<"SELECT p.category AS label,",
                  "SUM(s.revenue)::NUMERIC AS value",
                  "FROM sales s",
                  "JOIN products p ON p.id = s.product_id",
                  WhereSql(acc.where),
                  "GROUP BY p.category",
                  "ORDER BY value DESC">>), acc.params, chart))

\* entity = filters.get("entity"), else guided by dim0, else "product"
PerformersEntity(f, dim0) ==
    IF IsStrOf(Get(f, "entity"), "product") \/ IsStrOf(Get(f, "entity"), "category")
    THEN Get(f, "entity").s
    ELSE IF dim0 \in {"product", "category"} THEN dim0 ELSE "product"

PerformersOrder(f) ==
    IF IsStrOf(Get(f, "order"), "top") \/ IsStrOf(Get(f, "order"), "bottom")
    THEN Get(f, "order").s
    ELSE "top"

GroupColumn(entity) == IF entity = "category" THEN "p.category" ELSE "p.name"

PlanTopBottom(f, chart, dim0) ==
    LET limit == LimitOrDefault(Get(f, "limit"), MaxPerformersLimit, DefaultPerformersLimit)
        acc == WithYearOrRange(Building([limit |-> limit], TRUE), f)
        column == GroupColumn(PerformersEntity(f, dim0))
    IN  Returned(PlannedQuery(
            Sql(<<"SELECT " \o column \o " AS label,",
                  "SUM(s.revenue)::NUMERIC AS value",
                  "FROM sales s",
                  "JOIN products p ON p.id = s.product_id",
                  WhereSql(acc.where),
                  "GROUP BY " \o column,
                  "ORDER BY value "
                      \o (IF PerformersOrder(f) = "top" THEN "DESC" ELSE "ASC"),
                  "LIMIT :limit">>), acc.params, chart))

\* variant: the guard is "if not year"
PlanBreakdownTruthy(f, chart, dim0) ==
    IF ~Truthy(Get(f, "year"))
    THEN Raised("QueryPlannerError", "sales_breakdown_for_year requires filter.year")
    ELSE Returned(PlannedQuery(
            Sql(<<"SELECT " \o GroupColumn(dim0) \o " AS label,",
                  "SUM(s.revenue)::NUMERIC AS value",
                  "FROM sales s",
                  "JOIN products p ON p.id = s.product_id",
                  "WHERE s.year = :year",
                  "GROUP BY " \o GroupColumn(dim0),
                  "ORDER BY value DESC">>), [year |-> Get(f, "year")], chart))

\* if not isinstance(year, int): raise
PlanBreakdown(f, chart, dim0) ==
    IF ~IsInt(Get(f, "year"))
    THEN Raised("QueryPlannerError", "sales_breakdown_for_year requires filter.year")
    ELSE Returned(PlannedQuery(
            Sql(<<"SELECT " \o GroupColumn(dim0) \o " AS label,",
                  "SUM(s.revenue)::NUMERIC AS value",
                  "FROM sales s",
                  "JOIN products p ON p.id = s.product_id",
                  "WHERE s.year = :year",
                  "GROUP BY " \o GroupColumn(dim0),
                  "ORDER BY value DESC">>), [year |-> Get(f, "year")], chart))

PlanGrowth(f, chart) ==
    LET acc == WithCategory(WithYearRange(
                   Building(EmptyMap, Truthy(Get(f, "category"))), f), f)
    IN  Returned(PlannedQuery(
            Sql(<<"WITH yearly AS (",
                  "SELECT s.year,",
                  "SUM(s.revenue)::NUMERIC AS revenue",
                  "FROM sales s",
                  JoinSql(acc.join),
                  WhereSql(acc.where),
                  "GROUP BY s.year",
                  ")",
                  "SELECT y.year::TEXT AS label,",
                  "(y.revenue - LAG(y.revenue) OVER (ORDER BY y.year))::NUMERIC AS value",
                  "FROM yearly y",
                  "ORDER BY y.year ASC">>), acc.params, chart))

PlanMultiYear(f, chart) ==
    LET year_count == LimitOrDefault(Get(f, "year_count"), MaxYearCount, DefaultYearCount)
        named == NonBlankStr(Get(f, "category"))
        join == Truthy(Get(f, "category")) \/ named
        extra_where == IF named THEN "AND lower(p.category) = lower(:category)" ELSE ""
        params == IF named
                  THEN [year_count |-> year_count,
                        category |-> PyStr(Strip(Get(f, "category").s))]
                  ELSE [year_count |-> year_count]
    IN  IF Truthy(Get(f, "average"))
        THEN Returned(PlannedQuery(
            Sql(<<"WITH max_year AS (SELECT MAX(year) AS y FROM sales),",
                  "yearly AS (",
                  "SELECT s.year,",
                  "SUM(s.revenue)::NUMERIC AS revenue",
                  "FROM sales s",
                  JoinSql(join),
                  "WHERE s.year >= (SELECT y FROM max_year) - :year_count + 1",
                  extra_where,
                  "GROUP BY s.year",
                  ")",
                  "SELECT 'avg'::TEXT AS label,",
                  "AVG(revenue)::NUMERIC AS value",
                  "FROM yearly">>), params, chart))
        ELSE Returned(PlannedQuery(
            Sql(<<"WITH max_year AS (SELECT MAX(year) AS y FROM sales)",
                  "SELECT s.year::TEXT AS label,",
                  "SUM(s.revenue)::NUMERIC AS value",
                  "FROM sales s",
                  JoinSql(join),
                  "WHERE s.year >= (SELECT y FROM max_year) - :year_count + 1",
                  extra_where,
                  "GROUP BY s.year",
                  "ORDER BY s.year ASC">>), params, chart))

\* the clarification plan without the WHERE FALSE of line 520
PlanClarificationUnfiltered(chart) ==
    Returned(PlannedQuery("SELECT 1::TEXT AS label, 0::NUMERIC AS value",
                          EmptyMap, chart))

PlanClarification(chart) ==
    Returned(PlannedQuery("SELECT 1::TEXT AS label, 0::NUMERIC AS value WHERE FALSE",
                          EmptyMap, chart))

PlanRevenueByCategory(f, chart) ==
    LET acc == IF IsInt(Get(f, "year"))
               THEN Bind(Building(EmptyMap, TRUE), "s.year = :year", "year", Get(f, "year"))
               ELSE Building(EmptyMap, TRUE)
    IN  Returned(PlannedQuery(
            Sql(<<"SELECT p.category AS label,",
                  "SUM(s.revenue)::NUMERIC AS value",
                  "FROM sales s",
                  "JOIN products p ON p.id = s.product_id",
                  WhereSql(acc.where),
                  "GROUP BY p.category",
                  "ORDER BY value DESC">>), acc.params, chart))

PlanTopProducts(f, chart) ==
    LET limit == LimitOrDefault(Get(f, "limit"), MaxTopProductsLimit,
                                DefaultTopProductsLimit)
        acc == IF IsInt(Get(f, "year"))
               THEN Bind(Building([limit |-> limit], TRUE), "s.year = :year", "year",
                         Get(f, "year"))
               ELSE Building([limit |-> limit], TRUE)
    IN  Returned(PlannedQuery(
            Sql(<<"SELECT p.name AS label,",
                  "SUM(s.revenue)::NUMERIC AS value",
                  "FROM sales s",
                  "JOIN products p ON p.id = s.product_id",
                  WhereSql(acc.where),
                  "GROUP BY p.name",
                  "ORDER BY value DESC",
                  "LIMIT :limit">>), acc.params, chart))

----------------------------------------------------------------------------
(* planner._validate_list and planner.plan_intent                          *)

\* the exception _validate_list raises on values, "" when it returns
RECURSIVE _validate_list(_, _)
_validate_list(values, allowed) ==
    IF values = <<>> THEN ""
    ELSE IF Unhashable(Head(values)) THEN "TypeError"
    ELSE IF ~(IsStr(Head(values)) /\ Head(values).s \in allowed) THEN "QueryPlannerError"
    ELSE _validate_list(Tail(values), allowed)

\* chart = intent_payload.get("chart") or spec.default_chart, without the
\* test of line 49
ChartOfAnyHint(payload, spec) ==
    LET chart == Or(Get(payload, "chart"), PyStr(spec.default_chart))
    IN  IF IsStr(chart) THEN chart.s ELSE spec.default_chart

\* chart = intent_payload.get("chart") or spec.default_chart, kept if line or bar
ChartOf(payload, spec) ==
    LET chart == Or(Get(payload, "chart"), PyStr(spec.default_chart))
    IN  IF IsStrOf(chart, "line") \/ IsStrOf(chart, "bar")
        THEN chart.s
        ELSE spec.default_chart

\* list(s)[0]: the element a set of str yields first depends on the string
\* hashes of the process; first is the dimension this process yields first (the variable hashfirst)
ListFirst(s, first) == IF first \in s THEN first ELSE CHOOSE x \in s : TRUE

\* dim0 = dimensions[0] if dimensions else list(spec.allowed_dimensions)[0]
Dim0(dimensions, spec, first) ==
    IF dimensions # <<>> THEN dimensions[1].s
    ELSE ListFirst(spec.allowed_dimensions, first)

\* the dispatch on intent_name without the two branches of lines 523-564
PlanBranchWithoutLegacy(name, f, chart, dim0) ==
    CASE name \in {"sales_trend", "sales_comparison", "sales_trend_over_time"} ->
            PlanTrend(f, chart)
      [] name = "sales_comparison_by_year" -> PlanComparisonByYear(f, chart)
      [] name = "total_sales_for_period" -> PlanTotal(f, chart)
      [] name = "sales_by_product" -> PlanByProduct(f, chart)
      [] name = "product_sales_trend" -> PlanProductTrend(f, chart)
      [] name = "sales_by_category" -> PlanByCategory(f, chart)
      [] name = "top_bottom_performers" -> PlanTopBottom(f, chart, dim0)
      [] name = "sales_breakdown_for_year" -> PlanBreakdown(f, chart, dim0)
      [] name = "sales_growth_analysis" -> PlanGrowth(f, chart)
      [] name = "multi_year_comparison" -> PlanMultiYear(f, chart)
      [] name = "clarification_required" -> PlanClarification(chart)
      [] OTHER -> Raised("QueryPlannerError", "No planner mapping for intent")

\* the dispatch on intent_name
PlanBranch(name, f, chart, dim0) ==
    CASE name \in {"sales_trend", "sales_comparison", "sales_trend_over_time"} ->
            PlanTrend(f, chart)
      [] name = "sales_comparison_by_year" -> PlanComparisonByYear(f, chart)
      [] name = "total_sales_for_period" -> PlanTotal(f, chart)
      [] name = "sales_by_product" -> PlanByProduct(f, chart)
      [] name = "product_sales_trend" -> PlanProductTrend(f, chart)
      [] name = "sales_by_category" -> PlanByCategory(f, chart)
      [] name = "top_bottom_performers" -> PlanTopBottom(f, chart, dim0)
      [] name = "sales_breakdown_for_year" -> PlanBreakdown(f, chart, dim0)
      [] name = "sales_growth_analysis" -> PlanGrowth(f, chart)
      [] name = "multi_year_comparison" -> PlanMultiYear(f, chart)
      [] name = "clarification_required" -> PlanClarification(chart)
      [] name = "revenue_by_category" -> PlanRevenueByCategory(f, chart)
      [] name = "top_products" -> PlanTopProducts(f, chart)
      [] OTHER -> Raised("QueryPlannerError", "No planner mapping for intent")

\* plan_intent(intent_payload): Returned(PlannedQuery) or Raised(exception)
plan_intent(payload, first) ==
    LET name == Get(payload, "intent")
        metrics == Or(Get(payload, "metrics"), PyList(<<>>))
        dimensions == Or(Get(payload, "dimensions"), PyList(<<>>))
        filters == Or(Get(payload, "filters"), PyDict(EmptyMap))
    IN  IF Unhashable(name) THEN Raised("TypeError", "unhashable type")
        ELSE IF ~(IsStr(name) /\ name.s \in IntentNames)
        THEN Raised("QueryPlannerError", "Unsupported intent")
        ELSE IF ~IsList(metrics) \/ ~IsList(dimensions) \/ ~IsDict(filters)
        THEN Raised("QueryPlannerError",
                    "Invalid intent JSON: metrics/dimensions/filters types")
        ELSE IF _validate_list(metrics.l, INTENTS[name.s].allowed_metrics) # ""
        THEN Raised(_validate_list(metrics.l, INTENTS[name.s].allowed_metrics),
                    "Unsupported metric")
        ELSE IF _validate_list(dimensions.l, INTENTS[name.s].allowed_dimensions) # ""
        THEN Raised(_validate_list(dimensions.l, INTENTS[name.s].allowed_dimensions),
                    "Unsupported dimension")
        ELSE PlanBranch(name.s, filters.d, ChartOf(payload, INTENTS[name.s]),
                        Dim0(dimensions.l, INTENTS[name.s], first))

----------------------------------------------------------------------------
(* routes._year_phrase, _scope_phrase, _derive_title, _to_float            *)

\* [y for y in years if isinstance(y, int)]
RECURSIVE IntsOf(_)
IntsOf(l) ==
    IF l = <<>> THEN <<>>
    ELSE (IF IsInt(Head(l)) THEN <<Head(l)>> ELSE <<>>) \o IntsOf(Tail(l))

StrEach(l) == [k \in 1..Len(l) |-> PyToStr(l[k], FALSE)]

_year_phrase(f) ==
    LET year == Get(f, "year")
        years == Get(f, "years")
        year_from == Get(f, "year_from")
        year_to == Get(f, "year_to")
        year_count == Get(f, "year_count")
        cleaned == IF IsList(years) THEN IntsOf(years.l) ELSE <<>>
    IN  IF IsInt(year) THEN "in " \o PyToStr(year, FALSE)
        ELSE IF Len(cleaned) = 2
        THEN "(" \o PyToStr(cleaned[1], FALSE) \o " vs " \o PyToStr(cleaned[2], FALSE) \o ")"
        ELSE IF cleaned # <<>> THEN "(" \o Join(", ", StrEach(cleaned)) \o ")"
        ELSE IF IsInt(year_from) /\ IsInt(year_to)
        THEN "from " \o PyToStr(year_from, FALSE) \o " to " \o PyToStr(year_to, FALSE)
        ELSE IF IsInt(year_from) THEN "from " \o PyToStr(year_from, FALSE)
        ELSE IF IsInt(year_to) THEN "up to " \o PyToStr(year_to, FALSE)
        ELSE IF IsInt(year_count) /\ IntVal(year_count) > 0
        THEN "(last " \o PyToStr(year_count, FALSE) \o " years)"
        ELSE ""

\* [str(c).strip() for c in categories if str(c).strip()]
RECURSIVE StrippedNames(_)
StrippedNames(l) ==
    IF l = <<>> THEN <<>>
    ELSE LET c == Strip(PyToStr(Head(l), FALSE))
         IN  (IF c = "" THEN <<>> ELSE <<c>>) \o StrippedNames(Tail(l))

ScopeNamesShown == 5

_scope_phrase(f) ==
    LET category == Get(f, "category")
        categories == Get(f, "categories")
        product_name == Get(f, "product_name")
        product_id == Get(f, "product_id")
        cleaned == IF IsList(categories) THEN StrippedNames(categories.l) ELSE <<>>
        shown == IF Len(cleaned) > ScopeNamesShown
                 THEN SubSeq(cleaned, 1, ScopeNamesShown) ELSE cleaned
        part1 == IF NonBlankStr(category) THEN <<"category " \o Strip(category.s)>>
                 ELSE IF cleaned # <<>> THEN <<"categories " \o Join(", ", shown)>>
                 ELSE <<>>
        part2 == IF NonBlankStr(product_name) THEN <<"product " \o Strip(product_name.s)>>
                 ELSE IF IsInt(product_id) THEN <<"product #" \o PyToStr(product_id, FALSE)>>
                 ELSE <<>>
    IN  IF part1 \o part2 = <<>> THEN "" ELSE "(" \o Join(", ", part1 \o part2) \o ")"

\* _join(base): the base phrase, the year phrase and the scope phrase
TitleJoin(base, f) ==
    Strip(Join(" ", <<base>>
                    \o (IF _year_phrase(f) = "" THEN <<>> ELSE <<_year_phrase(f)>>)
                    \o (IF _scope_phrase(f) = "" THEN <<>> ELSE <<_scope_phrase(f)>>)))

DefaultTitleTopProducts == 10
DefaultTitlePerformers == 5

\* n = limit if isinstance(limit, int) else default
TitleCount(f, default) ==
    IF IsInt(Get(f, "limit")) THEN PyToStr(Get(f, "limit"), FALSE) ELSE IntToStr(default)

_derive_title(payload) ==
    LET name == PyToStr(Or(Get(payload, "intent"), PyStr("")), FALSE)
        f == IF IsDict(Get(payload, "filters")) THEN Get(payload, "filters").d ELSE EmptyMap
        dims == Get(payload, "dimensions")
        dim0 == IF IsList(dims) /\ Truthy(dims) THEN PyToStr(dims.l[1], FALSE) ELSE "product"
        ent == IF IsStrOf(Get(f, "entity"), "product") \/ IsStrOf(Get(f, "entity"), "category")
               THEN Get(f, "entity").s ELSE "product"
    IN  CASE name \in {"sales_trend", "sales_trend_over_time"} -> TitleJoin("Revenue trend", f)
          [] name \in {"sales_comparison", "sales_comparison_by_year"} ->
                TitleJoin("Revenue comparison", f)
          [] name = "total_sales_for_period" -> TitleJoin("Total revenue", f)
          [] name = "top_products" ->
                TitleJoin("Top " \o TitleCount(f, DefaultTitleTopProducts)
                          \o " products by revenue", f)
          [] name = "sales_by_product" -> TitleJoin("Revenue by product", f)
          [] name \in {"revenue_by_category", "sales_by_category"} ->
                TitleJoin("Revenue by category", f)
          [] name = "product_sales_trend" -> TitleJoin("Product revenue trend", f)
          [] name = "sales_breakdown_for_year" -> TitleJoin("Sales breakdown by " \o dim0, f)
          [] name = "sales_growth_analysis" -> TitleJoin("Year-over-year revenue change", f)
          [] name = "multi_year_comparison" ->
                IF Truthy(Get(f, "average")) THEN TitleJoin("Average yearly revenue", f)
                ELSE TitleJoin("Revenue by year", f)
          [] name = "top_bottom_performers" ->
                TitleJoin((IF IsStrOf(Get(f, "order"), "bottom") THEN "Bottom" ELSE "Top")
                          \o " " \o TitleCount(f, DefaultTitlePerformers) \o " "
                          \o (IF ent = "product" THEN "products" ELSE "categories")
                          \o " by revenue", f)
          [] name = "clarification_required" -> "Sales overview (needs clarification)"
          [] OTHER -> TitleJoin("Revenue", f)

\* _to_float(v) on the values a row holds here: None or a whole number
_to_float(v) == IF v = None THEN 0 ELSE IntVal(v)

----------------------------------------------------------------------------
(* Inputs of the model                                                     *)

\* rows per result set
MaxRows == 2

\* the questions sent through the pipeline
PipelineQuestions ==
    {"revenue in 2022", "2021 vs 2024 comparison", "top 5 products in 2023",
     "top 100 products", "overall", "breakdown 2021", "sales by category",
     "trend 2020 to 2021 \" \"", "trend for \"Corolla\" from 2019 to 2023",
     "sales in the Toyota category"}

\* app.settings.settings as the environment can set it
SettingsChoices ==
    {[llm_mode |-> "stub", gemini_api_key |-> PyStr("key")],
     [llm_mode |-> "STUB", gemini_api_key |-> None],
     [llm_mode |-> "gemini", gemini_api_key |-> None],
     [llm_mode |-> "gemini", gemini_api_key |-> PyStr("")],
     [llm_mode |-> "gemini", gemini_api_key |-> PyStr("key")]}

\* JSON objects the remote service can answer with
RemoteObjects ==
    {Payload("sales_trend_over_time", "year", [year_from |-> PyInt(2020)], "line"),
     Payload("top_bottom_performers", "product", [limit |-> PyInt(999)], "bar"),
     Payload("clarification_required", "year", [year |-> PyInt(2020)], "pie"),
     Payload("product_sales_trend", "year", EmptyMap, "line"),
     Payload("sales_forecast", "year", EmptyMap, "line"),
     Payload("sales_by_product", "colour", EmptyMap, "bar"),
     [intent |-> PyStr("sales_trend"), metrics |-> PyStr("total_revenue")],
     [intent |-> PyStr("sales_trend"), metrics |-> PyList(<<PyStr("profit")>>)],
     [intent |-> PyStr("sales_trend"), filters |-> PyList(<<PyStr("2020")>>)],
     [intent |-> PyList(<<PyStr("sales_trend")>>)],
     [answer |-> PyStr("42")],
     EmptyMap}

\* JSON values that are not objects
RemoteNonObjects == {PyList(<<PyStr("sales_trend")>>), PyStr("sales_trend"), PyInt(1), None}

\* the rows a result set can hold
RowValues ==
    {[label |-> PyStr("2021"), value |-> PyInt(10)],
     [label |-> PyStr("Corolla"), value |-> None]}

RowSeqs == UNION {[1..n -> RowValues] : n \in 0..MaxRows}

\* what the database answers to a plan: no row passes WHERE FALSE
ResultRows(p) == IF Contains(p.sql, "WHERE FALSE") THEN {<<>>} ELSE RowSeqs

----------------------------------------------------------------------------
(* routes.query and gemini_client.parse_intent, step by step               *)

\* HTTPException(status_code=400, detail={"error": error, ...})
ErrorReport(error) == [status |-> "400", error |-> error]

\* an exception no handler of query() catches
Unhandled(exception) == [status |-> "500", error |-> exception]

\* QueryResponse(title, chartType, labels, datasets)
QueryResponse(payload, p, rows) ==
    [status |-> "200",
     title |-> _derive_title(payload),
     chartType |-> p.chart_type,
     labels |-> [k \in 1..Len(rows) |-> PyToStr(Get(rows[k], p.label_field), FALSE)],
     datasets |-> IF rows = <<>> THEN <<>>
                  ELSE <<[label |-> "total_revenue",
                          data |-> [k \in 1..Len(rows) |->
                                       _to_float(Get(rows[k], p.value_field))]]>>]

\* a request arrives
Receive(q) ==
    /\ pc = "idle"
    /\ pc' = "parse_intent"
    /\ question' = q
    /\ UNCHANGED <<settings, intent, plan, response, executions, reports, hashfirst, catalog,
                   source, failure, raw, normalized>>

UsesStub == Lower(settings.llm_mode) = "stub" \/ ~Truthy(settings.gemini_api_key)

\* return _stub_parse(question) after the step named by why failed
FallBack(why) ==
    /\ intent' = PyDict(_stub_parse(question))
    /\ source' = "stub"
    /\ failure' = why
    /\ pc' = "plan_intent"
    /\ UNCHANGED <<question, settings, plan, response, executions, reports, hashfirst, catalog,
                   raw, normalized>>

\* an exception leaves parse_intent; query() catches MCPError only
Escape(why) ==
    /\ response' = Unhandled("Exception")
    /\ failure' = why
    /\ pc' = "done"
    /\ UNCHANGED <<question, settings, intent, plan, executions, reports, hashfirst, catalog,
                   source, raw, normalized>>

Advance(to) ==
    /\ pc' = to
    /\ UNCHANGED <<question, settings, intent, plan, response, executions, reports,
                   hashfirst, catalog, source, failure, raw, normalized>>

\* parse_intent: llm_mode is stub, or there is no API key
ParseIntentStub ==
    /\ pc = "parse_intent"
    /\ UsesStub
    /\ FallBack(IF Lower(settings.llm_mode) = "stub" THEN "mode" ELSE "api_key")

\* parse_intent: import google.generativeai
ImportSdk ==
    /\ pc = "parse_intent"
    /\ ~UsesStub
    /\ Advance("configure")

ImportSdkFails ==
    /\ pc = "parse_intent"
    /\ ~UsesStub
    /\ FallBack("import")

\* parse_intent: genai.configure(...); genai.GenerativeModel(...)
Configure ==
    /\ pc = "configure"
    /\ Advance("count_tokens")

ConfigureRaises ==
    /\ pc = "configure"
    /\ \E why \in {"configure", "model"} : Escape(why)

\* parse_intent: model.count_tokens(prompt), a call to the remote service
CountTokens ==
    /\ pc = "count_tokens"
    /\ Advance("generate_content")

CountTokensRaises ==
    /\ pc = "count_tokens"
    /\ Escape("count_tokens")

\* parse_intent: model.generate_content(prompt) raises, or resp.text does
GenerateRaises ==
    /\ pc = "generate_content"
    /\ FallBack("generate_content")

\* parse_intent: json.loads(text) raises
GenerateMalformed ==
    /\ pc = "generate_content"
    /\ FallBack("json")

\* parse_intent: the output is JSON, but no object
GenerateNonObject ==
    /\ pc = "generate_content"
    /\ \E v \in RemoteNonObjects : ~IsDict(v) /\ FallBack("non_object")

\* parse_intent: return payload
GenerateObject ==
    /\ pc = "generate_content"
    /\ \E o \in RemoteObjects :
         /\ intent' = PyDict(o)
         /\ source' = "remote"
         /\ pc' = "plan_intent"
         /\ UNCHANGED <<question, settings, plan, response, executions, reports,
                        hashfirst, catalog, failure, raw, normalized>>

\* query: plan = plan_intent(intent), QueryPlannerError reported as planner_error
PlanIntent ==
    /\ pc = "plan_intent"
    /\ plan' = plan_intent(intent.d, hashfirst)
    /\ IF plan'.raises = "" THEN pc' = "execute" /\ UNCHANGED <<response, reports>>
       ELSE IF plan'.raises = "QueryPlannerError"
       THEN pc' = "done" /\ response' = ErrorReport("planner_error")
            /\ reports' = reports + 1
       ELSE pc' = "done" /\ response' = Unhandled(plan'.raises) /\ UNCHANGED reports
    /\ UNCHANGED <<question, settings, intent, executions, hashfirst, catalog, source, failure,
                   raw, normalized>>

\* query: conn.execute(stmt, plan.params) returns rows; the response is assembled
Execute ==
    /\ pc = "execute"
    /\ executions' = executions + 1
    /\ \E rows \in ResultRows(plan.value) :
         response' = QueryResponse(intent.d, plan.value, rows)
    /\ pc' = "done"
    /\ UNCHANGED <<question, settings, intent, plan, reports, hashfirst, catalog, source,
                   failure, raw, normalized>>

\* query: conn.execute raises, reported as db_error
ExecuteRaises ==
    /\ pc = "execute"
    /\ executions' = executions + 1
    /\ response' = ErrorReport("db_error")
    /\ reports' = reports + 1
    /\ pc' = "done"
    /\ UNCHANGED <<question, settings, intent, plan, hashfirst, catalog, source, failure,
                   raw, normalized>>

\* the request is over; its Intent and PlannedQuery are discarded
Finish ==
    /\ pc = "done"
    /\ pc' = "idle"
    /\ question' = ""
    /\ intent' = None
    /\ plan' = None
    /\ response' = None
    /\ executions' = 0
    /\ reports' = 0
    /\ source' = ""
    /\ failure' = ""
    /\ UNCHANGED <<settings, hashfirst, catalog, raw, normalized>>

Init ==
    /\ pc = "idle"
    /\ question = ""
    /\ settings \in SettingsChoices
    /\ hashfirst \in INTENTS["top_bottom_performers"].allowed_dimensions
    /\ catalog = INTENTS
    /\ intent = None
    /\ plan = None
    /\ response = None
    /\ executions = 0
    /\ reports = 0
    /\ source = ""
    /\ failure = ""
    /\ raw = None
    /\ normalized = None

\* the steps the request handler takes by itself
HandlerStep ==
    \/ ParseIntentStub
    \/ ImportSdk
    \/ ImportSdkFails
    \/ Configure
    \/ ConfigureRaises
    \/ PlanIntent
    \/ Execute
    \/ ExecuteRaises
    \/ Finish

\* the answers of the remote service
RemoteStep ==
    \/ CountTokens
    \/ CountTokensRaises
    \/ GenerateRaises
    \/ GenerateMalformed
    \/ GenerateNonObject
    \/ GenerateObject

Next ==
    \/ \E q \in PipelineQuestions : Receive(q)
    \/ HandlerStep
    \/ RemoteStep

Spec == Init /\ [][Next]_vars

\* the handler keeps running; nothing makes the remote service answer
FairSpec == Spec /\ WF_vars(HandlerStep)

----------------------------------------------------------------------------
(* plan_intent called on its own                                           *)

\* a key the filters dict does not hold
Absent == [t |-> "absent"]

\* the dict with the keys of r whose value is not Absent
FiltersOf(r) == [k \in {x \in DOMAIN r : r[x] # Absent} |-> r[k]]

MaxLimit == 101

\* values of filters.limit: missing, of another type, and ints on both sides
\* of the bounds of lines 242 and 364
LimitChoices ==
    {Absent, None, PyStr("10"), PyBool(TRUE), PyBool(FALSE), PyList(<<PyInt(3)>>)}
    \cup {PyInt(n) : n \in ((-MaxLimit)..MaxLimit) \cup {500, 999}}

LimitPayloads ==
    {Payload(name, "product", FiltersOf([limit |-> l, year |-> y]), "bar") :
        name \in {"sales_by_product", "top_bottom_performers"},
        l \in LimitChoices, y \in {Absent, PyInt(2022)}}

ProductTrendPayloads ==
    {Payload("product_sales_trend", "year",
             FiltersOf([product_id |-> i, product_name |-> n, year_from |-> y]), "line") :
        i \in {Absent, None, PyInt(7), PyInt(0), PyBool(TRUE), PyStr("7")},
        n \in {Absent, None, PyStr(""), PyStr("  "), PyStr("Corolla"), PyStr(" 50% "),
               PyInt(5)},
        y \in {Absent, PyInt(2020), PyStr("2020")}}

BreakdownPayloads ==
    {[Payload("sales_breakdown_for_year", "product",
              FiltersOf([year |-> y, category |-> c]), "bar")
        EXCEPT !.dimensions = PyList(d)] :
        y \in {Absent, None, PyInt(2021), PyInt(0), PyInt(-1), PyBool(TRUE),
               PyStr("2021"), PyList(<<PyInt(2021)>>)},
        c \in {Absent, PyStr("Toyota")},
        d \in {<<>>, <<PyStr("product")>>, <<PyStr("category")>>,
               <<PyStr("category"), PyStr("product")>>}}

\* payloads that lines 32-46 reject
RejectedPayloads ==
    {Payload("product_sales_trend", "colour", [product_id |-> PyInt(7)], "line"),
     Payload("sales_breakdown_for_year", "year", [year |-> PyInt(2021)], "bar"),
     [Payload("sales_by_product", "product", [limit |-> PyInt(7)], "bar")
        EXCEPT !.metrics = PyList(<<PyStr("profit")>>)],
     [Payload("top_bottom_performers", "product", [limit |-> PyInt(7)], "bar")
        EXCEPT !.filters = PyList(<<PyInt(7)>>)],
     [Payload("product_sales_trend", "year", EmptyMap, "line")
        EXCEPT !.dimensions = PyList(<<PyList(<<>>)>>)]}

\* the year, category and product filters the branches read: missing, of
\* the type the branch expects, blank, and of another type
ScopeFilters ==
    {FiltersOf([years |-> ys, year_from |-> yf, year_to |-> yt, year |-> y,
                category |-> c, categories |-> cs, product_name |-> n,
                product_id |-> i]) :
        ys \in {Absent, PyList(<<>>), PyList(<<PyInt(2021), PyInt(2024)>>)},
        yf \in {Absent, PyInt(2019)},
        yt \in {Absent, PyInt(2023)},
        y \in {Absent, PyInt(2022)},
        c \in {Absent, PyStr("Toyota"), PyStr("  "), PyInt(5)},
        cs \in {Absent, PyList(<<PyStr(" ")>>), PyList(<<PyStr("Toyota"), PyStr(" suv ")>>)},
        n \in {Absent, PyStr("Corolla"), PyInt(3)},
        i \in {Absent, PyInt(7)}}

\* every intent of the catalog with its default dimension and each scope
ScopePayloads ==
    {[Payload(name, "year", f, "line") EXCEPT !.dimensions = PyList(<<>>)] :
        name \in IntentNames, f \in ScopeFilters}

\* multi_year_comparison and top_products with the filters only they read
CountPayloads ==
    {Payload("multi_year_comparison", "year",
             FiltersOf([year_count |-> k, average |-> a, category |-> c]), "bar") :
        k \in {Absent, PyInt(0), PyInt(5), PyInt(21), PyStr("5")},
        a \in {Absent, PyBool(TRUE), PyBool(FALSE)},
        c \in {Absent, PyStr("Toyota"), PyInt(5)}}
    \cup {Payload("top_products", "product", FiltersOf([limit |-> l, year |-> y]), "bar") :
        l \in {Absent, PyInt(3), PyInt(51)}, y \in {Absent, PyInt(2022)}}

\* values of the chart hint: missing, null, empty, line, bar, another name,
\* and values that are not a str
ChartChoices ==
    {Absent, None, PyStr(""), PyStr("line"), PyStr("bar"), PyStr("pie"), PyStr("Line"),
     PyInt(5), PyList(<<PyStr("line")>>)}

\* every intent of the catalog with each subset of its allowed metrics and
\* dimensions, each chart hint, and filters with or without a subject
CatalogPayloads ==
    {FiltersOf([intent |-> PyStr(name), metrics |-> PyList(m), dimensions |-> PyList(d),
                filters |-> PyDict(f), chart |-> c]) :
        name \in IntentNames, c \in ChartChoices,
        f \in {EmptyMap, [product_id |-> PyInt(7), year |-> PyInt(2021)]},
        m \in {<<>>, <<PyStr("total_revenue")>>},
        d \in {<<>>, <<PyStr("year")>>, <<PyStr("product")>>, <<PyStr("category")>>,
               <<PyStr("category"), PyStr("product")>>}}

\* payloads whose intent, metrics or dimensions lines 32-46 have to refuse
UnlistedPayloads ==
    {FiltersOf([intent |-> n, metrics |-> PyList(m), dimensions |-> PyList(d),
                filters |-> PyDict([product_id |-> PyInt(7), year |-> PyInt(2021)]),
                chart |-> PyStr("bar")]) :
        n \in {Absent, None, PyStr("sales_forecast"), PyStr("Sales_Trend"), PyInt(1),
               PyList(<<PyStr("sales_trend")>>), PyStr("sales_trend"),
               PyStr("top_bottom_performers")},
        m \in {<<>>, <<PyStr("total_revenue")>>, <<PyStr("profit")>>,
               <<PyStr("total_revenue"), PyStr("profit")>>, <<None>>,
               <<PyList(<<PyStr("total_revenue")>>)>>},
        d \in {<<>>, <<PyStr("year")>>, <<PyStr("product")>>, <<PyStr("colour")>>,
               <<PyStr("product"), PyStr("colour")>>, <<PyInt(1)>>,
               <<PyDict(EmptyMap)>>}}

\* every intent of the catalog with filters of the wrong type: a years
\* value that is not a list of ints, and the other keys as strings, next to
\* a key no branch reads
MistypedPayloads ==
    {[Payload(name, "year", FiltersOf(
          [years |-> ys, year |-> w.y, year_from |-> w.n, year_to |-> w.n,
           year_count |-> w.n, limit |-> w.n, product_id |-> i,
           category |-> w.c, product_name |-> w.c, colour |-> w.k]), "line")
        EXCEPT !.dimensions = PyList(<<>>)] :
        name \in IntentNames,
        ys \in {Absent, PyList(<<PyStr("2021")>>), PyList(<<PyInt(2021), None>>),
                PyStr("2021"), PyInt(2021)},
        i \in {PyInt(7), PyStr("7")},
        w \in {[y |-> Absent, n |-> Absent, c |-> Absent, k |-> Absent],
               [y |-> PyInt(2022), n |-> Absent, c |-> Absent, k |-> PyStr("red")],
               [y |-> PyStr("2022"), n |-> PyStr("5"), c |-> PyInt(5), k |-> PyStr("red")],
               [y |-> PyList(<<PyInt(2022)>>), n |-> None, c |-> PyList(<<>>), k |-> Absent]}}

\* top_bottom_performers with the filters its title and its plan both read
PerformersPayloads ==
    {[Payload("top_bottom_performers", "product",
              FiltersOf([limit |-> l, entity |-> e, order |-> o]), "bar")
        EXCEPT !.dimensions = PyList(d)] :
        l \in {Absent, PyInt(3), PyInt(50), PyInt(51), PyInt(100), PyBool(TRUE), PyStr("3")},
        e \in {Absent, PyStr("product"), PyStr("category"), PyStr("region")},
        o \in {Absent, PyStr("top"), PyStr("bottom")},
        d \in {<<>>, <<PyStr("product")>>, <<PyStr("category")>>}}

PlannerInputs ==
    PerformersPayloads \cup LimitPayloads \cup ProductTrendPayloads \cup BreakdownPayloads \cup RejectedPayloads
    \cup RemoteObjects \cup ScopePayloads \cup CountPayloads \cup CatalogPayloads
    \cup UnlistedPayloads \cup MistypedPayloads

PlanInit ==
    /\ pc = "call"
    /\ intent \in {PyDict(payload) : payload \in PlannerInputs}
    /\ hashfirst \in INTENTS["top_bottom_performers"].allowed_dimensions
    /\ catalog = INTENTS
    /\ question = ""
    /\ settings \in {sc \in SettingsChoices : sc.llm_mode = "stub"}
    /\ plan = None
    /\ response = None
    /\ executions = 0
    /\ reports = 0
    /\ source = ""
    /\ failure = ""
    /\ raw = None
    /\ normalized = None

\* plan = plan_intent(intent)
CallPlanIntent ==
    /\ pc = "call"
    /\ plan' = plan_intent(intent.d, hashfirst)
    /\ pc' = "return"
    /\ UNCHANGED <<question, settings, intent, response, executions, reports,
                   hashfirst, catalog, source, failure, raw, normalized>>

PlanSpec == PlanInit /\ [][CallPlanIntent]_vars

----------------------------------------------------------------------------
(* Properties of plan_intent                                               *)

\* plan_intent has returned or raised for a payload naming this intent
PlannedFor(name) == pc = "return" /\ IsStrOf(Get(intent.d, "intent"), name)

\* the payload's metrics and dimensions are lists of names the catalog allows
\* for the intent, and its filters are a dict
WellFormed(name) ==
    /\ IsList(Get(intent.d, "metrics"))
    /\ \A k \in 1..Len(Get(intent.d, "metrics").l) :
          /\ IsStr(Get(intent.d, "metrics").l[k])
          /\ Get(intent.d, "metrics").l[k].s \in INTENTS[name].allowed_metrics
    /\ IsList(Get(intent.d, "dimensions"))
    /\ \A k \in 1..Len(Get(intent.d, "dimensions").l) :
          /\ IsStr(Get(intent.d, "dimensions").l[k])
          /\ Get(intent.d, "dimensions").l[k].s \in INTENTS[name].allowed_dimensions
    /\ IsDict(Get(intent.d, "filters"))

\* filters[key] of the payload planned, None when missing
Given(key) == Get(Get(intent.d, "filters").d, key)

\* an int within 1..most
InRange(v, most) == IsInt(v) /\ 1 <= IntVal(v) /\ IntVal(v) <= most

\* C4: planning top_bottom_performers with an integer limit above 50 binds
\* the limit parameter 50.
C4_LimitAbove50Binds50 ==
    (PlannedFor("top_bottom_performers") /\ WellFormed("top_bottom_performers")
        /\ IsInt(Given("limit")) /\ IntVal(Given("limit")) > 50)
    => (plan.raises = "" /\ plan.value.params["limit"] = PyInt(50))

\* the limit plan_intent binds follows the claim for an intent whose
\* largest limit is most and whose default is default
LimitAsClaimed(name, most, default) ==
    (PlannedFor(name) /\ WellFormed(name))
    => /\ plan.raises = ""
       /\ InRange(plan.value.params["limit"], most)
       /\ IF InRange(Given("limit"), most)
          THEN plan.value.params["limit"] = Given("limit")
          ELSE plan.value.params["limit"] = PyInt(default)

\* C5: the limit bound is an int in [1,100] for sales_by_product and in
\* [1,50] for top_bottom_performers; a limit that is absent, not an int or
\* out of range gives the default 20, respectively 5; an in-range int is
\* bound unchanged.
C5_LimitBound ==
    /\ LimitAsClaimed("sales_by_product", 100, 20)
    /\ LimitAsClaimed("top_bottom_performers", 50, 5)

\* C5 witness: sales_by_product with limit 500 binds the default 20
C5_Witness ==
    /\ PlannedFor("sales_by_product")
    /\ WellFormed("sales_by_product")
    /\ Given("limit") = PyInt(500)
    /\ plan.value.params["limit"] = PyInt(20)

\* C9: product_sales_trend raises a planning error when filters hold neither
\* an int product_id nor a non-blank str product_name, returns a plan when
\* one of them is present, and binds only product_id when both are.
C9_ProductTrendSubject ==
    (PlannedFor("product_sales_trend") /\ WellFormed("product_sales_trend"))
    => IF ~IsInt(Given("product_id")) /\ ~NonBlankStr(Given("product_name"))
       THEN plan.raises = "QueryPlannerError"
       ELSE /\ plan.raises = ""
            /\ (IsInt(Given("product_id")) /\ NonBlankStr(Given("product_name")))
               => /\ "product_id" \in DOMAIN plan.value.params
                  /\ plan.value.params["product_id"] = Given("product_id")
                  /\ "product_name" \notin DOMAIN plan.value.params

\* C9 witness: both filters given, the plan binds product_id alone
C9_Witness ==
    /\ PlannedFor("product_sales_trend")
    /\ Given("product_id") = PyInt(7)
    /\ Given("product_name") = PyStr("Corolla")
    /\ plan.raises = ""
    /\ DOMAIN plan.value.params = {"product_id"}

\* C10: sales_breakdown_for_year raises a planning error when filters.year is
\* absent or not an int, and otherwise returns a plan that binds exactly
\* that year.
C10_BreakdownYear ==
    (PlannedFor("sales_breakdown_for_year") /\ WellFormed("sales_breakdown_for_year"))
    => IF IsInt(Given("year"))
       THEN plan.raises = "" /\ plan.value.params = [year |-> Given("year")]
       ELSE plan.raises = "QueryPlannerError"

\* C10 witness: the year 2021 is bound, next to a category filter that is not
C10_Witness ==
    /\ PlannedFor("sales_breakdown_for_year")
    /\ Given("year") = PyInt(2021)
    /\ Given("category") = PyStr("Toyota")
    /\ plan.raises = ""
    /\ plan.value.params = [year |-> PyInt(2021)]

\* the names of the :name placeholders of an SQL text, as sqlalchemy.text
\* reads them: a colon that follows neither a colon nor a word character,
\* then a run of word characters (so the casts ::TEXT and ::NUMERIC are none)
Placeholders(sql) ==
    {SubSeq(sql, k + 1, LStripFrom(sql, k + 1, LowerSet \cup UpperSet \cup DigitSet \cup {"_"}) - 1) :
        k \in {i \in 1..(Len(sql) - 1) :
                  /\ Ch(sql, i) = ":"
                  /\ IsWord(Ch(sql, i + 1))
                  /\ (i = 1 \/ ~(IsWord(Ch(sql, i - 1)) \/ Ch(sql, i - 1) = ":"))}}

\* plan_intent has returned a plan
Planned == pc = "return" /\ plan.raises = ""

\* C11: for every payload plan_intent returns a plan for, the keys of the
\* plan's params are exactly the names of the :name placeholders of its sql.
C11_ParamsMatchPlaceholders ==
    Planned => DOMAIN plan.value.params = Placeholders(plan.value.sql)

\* C11 witness: sales_trend with a years list, a category, a product id and
\* a product name binds the four parameters its sql names
C11_Witness ==
    /\ PlannedFor("sales_trend")
    /\ Planned
    /\ DOMAIN plan.value.params = {"years", "category", "product_id", "product_name"}
    /\ Placeholders(plan.value.sql) = {"years", "category", "product_id", "product_name"}

\* the payload names an intent of the catalog
Catalogued ==
    IsStr(Get(intent.d, "intent")) /\ Get(intent.d, "intent").s \in IntentNames

\* the payload's list under key holds an element that is not in allowed
HoldsUnlisted(key, allowed) ==
    /\ IsList(Get(intent.d, key))
    /\ \E k \in 1..Len(Get(intent.d, key).l) :
          ~(IsStr(Get(intent.d, key).l[k]) /\ Get(intent.d, key).l[k].s \in allowed)

\* the intent is not in the catalog, or a metric or a dimension is outside
\* the sets the catalog allows for the intent
Unlisted ==
    \/ ~Catalogued
    \/ /\ Catalogued
       /\ \/ HoldsUnlisted("metrics", INTENTS[Get(intent.d, "intent").s].allowed_metrics)
          \/ HoldsUnlisted("dimensions",
                           INTENTS[Get(intent.d, "intent").s].allowed_dimensions)

\* C12: plan_intent raises QueryPlannerError, and returns no plan, whenever
\* the intent name is not in the catalog or an element of metrics or of
\* dimensions is outside the intent's allowed set.
C12_UnlistedRejected ==
    (pc = "return" /\ Unlisted) => plan.raises = "QueryPlannerError"

\* no plan is ever returned for an unlisted intent, metric or dimension
C12_NoPlanForUnlisted ==
    (pc = "return" /\ Unlisted) => plan.raises # ""

\* the payload names an intent of the catalog, lists metrics and dimensions
\* the catalog allows for it, and has a dict of filters
WellFormedPayload == Catalogued /\ WellFormed(Get(intent.d, "intent").s)

\* C13: for every intent of the catalog, plan_intent called with metrics and
\* dimensions that are subsets of the intent's allowed sets returns a plan
\* and does not raise.
C13_CatalogIntentPlans ==
    (pc = "return" /\ WellFormedPayload) => plan.raises = ""

\* the filters lack what product_sales_trend (lines 285-301) or
\* sales_breakdown_for_year (lines 406-407) cannot plan without
SubjectMissing ==
    \/ /\ PlannedFor("product_sales_trend")
       /\ ~IsInt(Given("product_id"))
       /\ ~NonBlankStr(Given("product_name"))
    \/ /\ PlannedFor("sales_breakdown_for_year")
       /\ ~IsInt(Given("year"))

\* C13 amended: with allowed metrics and dimensions, plan_intent returns a
\* plan for every intent of the catalog, except that product_sales_trend
\* without an int product_id or a non-blank product_name, and
\* sales_breakdown_for_year without an int year, raise QueryPlannerError.
C13_CatalogIntentPlansGivenSubject ==
    (pc = "return" /\ WellFormedPayload)
    => IF SubjectMissing THEN plan.raises = "QueryPlannerError" ELSE plan.raises = ""

\* C13 witness: top_products, the last branch of the dispatch, returns a
\* plan for empty filters and no dimension
C13_Witness ==
    /\ PlannedFor("top_products")
    /\ WellFormedPayload
    /\ Get(intent.d, "filters") = PyDict(EmptyMap)
    /\ Get(intent.d, "dimensions") = PyList(<<>>)
    /\ plan.raises = ""

\* C14: the chart_type of every plan returned is "line" or "bar": the
\* payload's chart hint when the hint is one of the two, and the catalog's
\* default_chart of the intent when the hint is absent, empty or anything else.
C14_ChartType ==
    Planned
    => /\ plan.value.chart_type \in {"line", "bar"}
       /\ plan.value.chart_type =
            IF Get(intent.d, "chart") \in {PyStr("line"), PyStr("bar")}
            THEN Get(intent.d, "chart").s
            ELSE INTENTS[Get(intent.d, "intent").s].default_chart

\* C14 witness: the hint "pie" on sales_trend, whose default is line, with
\* the hint overridden by the default
C14_Witness ==
    /\ PlannedFor("sales_trend")
    /\ Planned
    /\ Get(intent.d, "chart") = PyStr("pie")
    /\ plan.value.chart_type = "line"

\* plan_intent has returned a plan for a well-formed payload naming one of
\* these intents
PlannedAmong(names) ==
    /\ Planned
    /\ WellFormedPayload
    /\ Get(intent.d, "intent").s \in names

\* C16: for sales_trend, sales_comparison, sales_trend_over_time,
\* sales_comparison_by_year and total_sales_for_period, a non-empty years
\* list given together with year_from and/or year_to is the only year
\* constraint: params holds years and neither year_from nor year_to.
C16_YearsListPrecedence ==
    (/\ PlannedAmong({"sales_trend", "sales_comparison", "sales_trend_over_time",
                      "sales_comparison_by_year", "total_sales_for_period"})
     /\ IsList(Given("years")) /\ Given("years").l # <<>>
     /\ (Given("year_from") # None \/ Given("year_to") # None))
    => /\ "years" \in DOMAIN plan.value.params
       /\ "year_from" \notin DOMAIN plan.value.params
       /\ "year_to" \notin DOMAIN plan.value.params

\* the same for the four intents whose branch reads filters.years
C16_YearsListPrecedenceWhereRead ==
    (/\ PlannedAmong({"sales_trend", "sales_comparison", "sales_trend_over_time",
                      "sales_comparison_by_year"})
     /\ IsList(Given("years")) /\ Given("years").l # <<>>
     /\ (Given("year_from") # None \/ Given("year_to") # None))
    => /\ "years" \in DOMAIN plan.value.params
       /\ "year_from" \notin DOMAIN plan.value.params
       /\ "year_to" \notin DOMAIN plan.value.params

\* the intents whose branch joins products only on join_products
ConditionalJoiners ==
    {"sales_trend", "sales_comparison", "sales_trend_over_time",
     "sales_comparison_by_year", "total_sales_for_period", "sales_growth_analysis",
     "multi_year_comparison"}

\* the planned sql joins the products table
JoinsProducts == Contains(plan.value.sql, "JOIN products p")

\* the planned sql holds a predicate on products.category or products.name
FiltersOnProducts ==
    Contains(plan.value.sql, "p.category") \/ Contains(plan.value.sql, "p.name")

\* C20: in the branches that join conditionally, the planned sql joins the
\* products table if and only if its WHERE clause holds a predicate on
\* products.category or products.name: the alias p is never used without
\* the join, and there is no join when no such predicate was added.
C20_JoinIffProductPredicate ==
    PlannedAmong(ConditionalJoiners) => (JoinsProducts <=> FiltersOnProducts)

\* the half of C20 that keeps the sql valid: a predicate on p implies the join
C20_NoAliasWithoutJoin ==
    PlannedAmong(ConditionalJoiners) => (FiltersOnProducts => JoinsProducts)

\* the filters whose value has to be an int, a str, or a list of ints
IntFilters == {"year", "year_from", "year_to", "year_count", "limit", "product_id"}

StrFilters == {"category", "product_name"}

\* a list whose elements are all ints
IsIntList(v) == IsList(v) /\ \A k \in 1..Len(v.l) : IsInt(v.l[k])

\* filters[key] is given with a type the planner does not accept for key
WronglyTyped(key) ==
    /\ Given(key) # None
    /\ \/ key \in IntFilters /\ ~IsInt(Given(key))
       \/ key \in StrFilters /\ ~IsStr(Given(key))
       \/ key = "years" /\ ~IsIntList(Given(key))

\* the plan binds filters[key] as it was given
BoundAsGiven(key) ==
    key \in DOMAIN plan.value.params /\ plan.value.params[key] = Given(key)

\* C21: with a catalog intent and valid metrics and dimensions, plan_intent
\* raises only for product_sales_trend without a product reference and for
\* sales_breakdown_for_year without an int year; for every other intent and
\* filters map, unknown keys and wrongly-typed values included, it returns a
\* plan in which no wrongly-typed filter is applied.
C21_MistypedFiltersIgnored ==
    (pc = "return" /\ WellFormedPayload)
    => /\ plan.raises # "" <=> SubjectMissing
       /\ plan.raises = ""
          => \A key \in IntFilters \cup StrFilters \cup {"years"} :
                WronglyTyped(key) => ~BoundAsGiven(key)

\* the same without the years list: the filters tested by isinstance alone
C21_MistypedScalarsIgnored ==
    (pc = "return" /\ WellFormedPayload)
    => /\ plan.raises # "" <=> SubjectMissing
       /\ plan.raises = ""
          => \A key \in IntFilters \cup StrFilters :
                WronglyTyped(key) => ~BoundAsGiven(key)

\* C24: in every plan returned, every year-valued or numeric parameter
\* bound in params (year, year_from, year_to, year_count, limit, product_id
\* and each element of years) is an int, whatever the types of the values
\* of the incoming filters.
C24_NumericParamsAreInts ==
    Planned
    => /\ \A key \in IntFilters \cap DOMAIN plan.value.params :
             IsInt(plan.value.params[key])
       /\ "years" \in DOMAIN plan.value.params => IsIntList(plan.value.params["years"])

\* the same for the parameters that are not lists
C24_ScalarParamsAreInts ==
    Planned => \A key \in IntFilters \cap DOMAIN plan.value.params :
                  IsInt(plan.value.params[key])

\* the orders in which a process can iterate a set of dimension names: the
\* element its string hashes put first
HashOrders == INTENTS["top_bottom_performers"].allowed_dimensions

\* C25: plan_intent is deterministic: the plan returned for a payload is the
\* plan any other invocation on an equal payload returns, in this or in
\* another process, also when dimensions is empty and the grouping of
\* top_bottom_performers or sales_breakdown_for_year comes from the allowed
\* dimension set.
C25_Deterministic ==
    pc = "return" => \A first \in HashOrders : plan_intent(intent.d, first) = plan

\* the same for the payloads that name a dimension
C25_DeterministicGivenDimension ==
    (pc = "return" /\ IsList(Get(intent.d, "dimensions"))
        /\ Get(intent.d, "dimensions").l # <<>>)
    => \A first \in HashOrders : plan_intent(intent.d, first) = plan

\* the plural the title uses for the column the plan groups by
GroupedEntities ==
    IF Contains(plan.value.sql, "GROUP BY p.category") THEN "categories" ELSE "products"

\* C27: for every top_bottom_performers intent that plans, the count N of
\* the derived title ("Top N ..." / "Bottom N ...") is the limit the plan
\* binds, and the entity word of the title (products / categories) is the
\* column the plan groups by.
C27_TitleMatchesPlan ==
    (PlannedFor("top_bottom_performers") /\ Planned)
    => Contains(_derive_title(intent.d),
                " " \o PyToStr(plan.value.params["limit"], FALSE) \o " "
                    \o GroupedEntities \o " by revenue")

\* the same when the limit given is an int within 1..50 and the entity is
\* given as product or category
C27_TitleMatchesPlanInRange ==
    (PlannedFor("top_bottom_performers") /\ Planned /\ WellFormedPayload
        /\ InRange(Given("limit"), MaxPerformersLimit)
        /\ Given("entity") \in {PyStr("product"), PyStr("category")})
    => Contains(_derive_title(intent.d),
                " " \o PyToStr(plan.value.params["limit"], FALSE) \o " "
                    \o GroupedEntities \o " by revenue")

----------------------------------------------------------------------------
(* _stub_parse called on its own                                           *)

MaxWords == 3

\* the words and phrases the questions are made of
Fragments ==
    {"revenue in", "2022", "2021", "2024", "vs", "comparison", "gap", "to",
     "top products", "by category", "breakdown", "total sales"}

\* the questions of up to n fragments joined by single spaces
RECURSIVE Phrases(_)
Phrases(n) ==
    IF n = 1 THEN Fragments
    ELSE Phrases(n - 1) \cup {p \o " " \o w : p \in Phrases(n - 1), w \in Fragments}

\* questions that name a category, at least one for each rule of the cascade
CategoryQuestions ==
    {p \o " " \o c :
        p \in {"sales per category", "top 5 products", "worst products", "breakdown 2021",
               "trend 2019 to 2023", "growth from 2019", "trend for \"Corolla\" 2019 to 2023",
               "2021 vs 2024", "last 3 years", "average per year", "total sales 2022",
               "sales by product", "between categories", "overview", "sales"},
        c \in {"in the suv category", "only in Toyota category", "category: honda civic"}}

\* questions that hold a year range next to the wording of a later rule
RangeQuestions ==
    {"2021 to 2024 comparison", "compare 2021-2024", "gap between 2021 and 2024",
     "last 3 years through 2024 from 2021", "average per year from 2021",
     "total sales from 2021 to 2024", "sales by product up to 2022",
     "growth 2021 thru 2024 vs 2020", "overview from 2019"}

\* questions whose range lies outside range(2015, 2031) or runs backwards
OddRangeQuestions ==
    {"into 2099 we go", "2024 to 2021", "between 2030 and 2016", "2031-2040",
     "from 2001", "sales 2014 thru 2016", "top 2 products from 2024 to 2021"}

ParseQuestions ==
    Phrases(MaxWords) \cup PipelineQuestions \cup CategoryQuestions \cup RangeQuestions
        \cup OddRangeQuestions

ParseInit ==
    /\ pc = "call"
    /\ question \in ParseQuestions
    /\ hashfirst \in INTENTS["top_bottom_performers"].allowed_dimensions
    /\ catalog = INTENTS
    /\ settings \in {sc \in SettingsChoices : sc.llm_mode = "stub"}
    /\ intent = None
    /\ plan = None
    /\ response = None
    /\ executions = 0
    /\ reports = 0
    /\ source = ""
    /\ failure = ""
    /\ raw = None
    /\ normalized = None

\* intent = _stub_parse(question)
CallStubParse ==
    /\ pc = "call"
    /\ intent' = PyDict(_stub_parse(question))
    /\ source' = "stub"
    /\ pc' = "return"
    /\ UNCHANGED <<question, settings, plan, response, executions, reports,
                   hashfirst, catalog, failure, raw, normalized>>

ParseSpec == ParseInit /\ [][CallStubParse]_vars

----------------------------------------------------------------------------
(* _normalize_category called on its own                                   *)

MaxRawLen == 4

RawAlphabet == {"a", "B", " ", "\"", "."}

RECURSIVE RawStrings(_)
RawStrings(n) ==
    IF n = 0 THEN {""}
    ELSE RawStrings(n - 1) \cup {r \o c : r \in RawStrings(n - 1), c \in RawAlphabet}

RawInputs ==
    {None} \cup {PyStr(r) : r \in RawStrings(MaxRawLen) \cup {" toyota ", "suv  CARS,"}}

NormInit ==
    /\ pc = "call"
    /\ raw \in RawInputs
    /\ normalized = None
    /\ question = ""
    /\ hashfirst \in INTENTS["top_bottom_performers"].allowed_dimensions
    /\ catalog = INTENTS
    /\ settings \in {sc \in SettingsChoices : sc.llm_mode = "stub"}
    /\ intent = None
    /\ plan = None
    /\ response = None
    /\ executions = 0
    /\ reports = 0
    /\ source = ""
    /\ failure = ""

\* normalized = _normalize_category(raw)
CallNormalize ==
    /\ pc = "call"
    /\ normalized' = _normalize_category(raw)
    /\ pc' = "return"
    /\ UNCHANGED <<question, settings, intent, plan, response, executions, reports,
                   hashfirst, catalog, source, failure, raw>>

NormSpec == NormInit /\ [][CallNormalize]_vars

----------------------------------------------------------------------------
(* Properties of the rule-based extractor                                  *)

\* the years of 2015..2030 whose digits occur in the lower-cased question
YearsNamed == {y \in 2015..2030 : Contains(Lower(question), IntToStr(y))}

\* one of the rules before the year-range rule matches the question
EarlierRuleMatches ==
    \/ GroupByCategoryRule(Lower(question))
    \/ TopRule(Lower(question))
    \/ BottomRule(Lower(question))
    \/ BreakdownRule(Lower(question))

\* one of the rules between the comparison rule and the default matches
LaterRuleMatches ==
    \/ LastThreeRule(Lower(question))
    \/ AverageRule(Lower(question))
    \/ TotalRule(Lower(question))
    \/ ByProductRule(Lower(question))
    \/ ByCategoryRule(Lower(question))
    \/ OverviewRule(Lower(question))

\* the filters restrict the rows to the year y
YearConstrained(f, y) ==
    \/ Get(f, "year") = PyInt(y)
    \/ Get(f, "year_from") = PyInt(y) /\ Get(f, "year_to") = PyInt(y)
    \/ Get(f, "years") = PyList(<<PyInt(y)>>)

\* C6: for "revenue in 2022", and any question that names one year of
\* 2015-2030 and matches no more specific rule, the intent returned by the
\* extractor has filters that constrain the year to that year.
C6_YearFilter ==
    (pc = "return" /\ Cardinality(YearsNamed) = 1
        /\ ~EarlierRuleMatches /\ ~RangeRule(Lower(question)) /\ ~LaterRuleMatches)
    => \A y \in YearsNamed : YearConstrained(intent.d.filters.d, y)

\* C7: a question that matches none of the earlier rules (category grouping,
\* top, bottom, breakdown with a year, year range), names at least two years
\* of 2015-2030 and holds comparison or delta language gives
\* sales_comparison_by_year with the two smallest years, ascending.
C7_ComparisonYears ==
    (pc = "return" /\ Cardinality(YearsNamed) >= 2
        /\ ~EarlierRuleMatches /\ ~RangeRule(Lower(question))
        /\ ContainsAny(Lower(question),
                       {" vs ", " versus ", "compare ", "comparison",
                        "gap", "difference", "increase", "decrease"}))
    => /\ intent.d.intent = PyStr("sales_comparison_by_year")
       /\ Get(intent.d.filters.d, "years")
             = PyList(<<PyInt(SetMin(YearsNamed)),
                        PyInt(SetMin(YearsNamed \ {SetMin(YearsNamed)}))>>)

\* C7 witness: "2021 vs 2024 comparison" gives years [2021, 2024]
C7_Witness ==
    /\ pc = "return"
    /\ question = "2021 vs 2024 comparison"
    /\ intent.d.intent = PyStr("sales_comparison_by_year")
    /\ intent.d.filters.d = [years |-> PyList(<<PyInt(2021), PyInt(2024)>>)]

\* C17: for every question from which a category phrase is extracted, the
\* intent the extractor returns carries filters.category equal to the
\* normalized category, whichever rule chose the intent, the clarification
\* and the default rule included.
C17_CategoryCarried ==
    (pc = "return" /\ Truthy(_extract_category(question)))
    => Get(intent.d.filters.d, "category") = _extract_category(question)

\* the same for every rule but the clarification rule
C17_CategoryCarriedUnlessClarification ==
    (pc = "return" /\ Truthy(_extract_category(question))
        /\ intent.d.intent # PyStr("clarification_required"))
    => Get(intent.d.filters.d, "category") = _extract_category(question)

\* no rule of the cascade before the default matches the question
NoRuleMatches ==
    /\ ~EarlierRuleMatches
    /\ ~RangeRule(Lower(question))
    /\ ~CompareRule(question, Lower(question))
    /\ ~LaterRuleMatches

\* C18: for every question the extractor returns an intent whose name is in
\* the catalog, whose metrics and dimensions are within the sets the catalog
\* allows for it, whose filters are a map and whose chart is line or bar;
\* when no rule matches, the intent is sales_trend_over_time and its filters
\* hold the extracted category and nothing else.
C18_ExtractorWellFormed ==
    pc = "return"
    => /\ IsDict(intent)
       /\ WellFormedPayload
       /\ Get(intent.d, "chart") \in {PyStr("line"), PyStr("bar")}
       /\ NoRuleMatches
          => /\ Get(intent.d, "intent") = PyStr("sales_trend_over_time")
             /\ Get(intent.d, "filters")
                   = PyDict(PutIfSet(EmptyMap, "category", _extract_category(question)))

\* C18 witness: "sales in the Toyota category" matches no rule and gives
\* sales_trend_over_time with the category as its only filter
C18_Witness ==
    /\ pc = "return"
    /\ question = "sales in the Toyota category"
    /\ NoRuleMatches
    /\ WellFormedPayload
    /\ Get(intent.d, "intent") = PyStr("sales_trend_over_time")
    /\ Get(intent.d, "filters") = PyDict([category |-> PyStr("Toyota")])

\* _extract_year_range finds a start or an end in the question
RangeDetected ==
    \/ _extract_year_range(Lower(question))[1] # None
    \/ _extract_year_range(Lower(question))[2] # None

\* C19: when none of the earlier rules (category grouping, top, bottom,
\* breakdown with a year) matches and a year range is detected, the intent is
\* product_sales_trend, sales_growth_analysis or sales_trend_over_time and
\* carries the range as year_from / year_to; it is never
\* sales_comparison_by_year, multi_year_comparison or total_sales_for_period,
\* whatever comparison, last-years or total wording the question holds.
C19_RangeBeforeLaterRules ==
    (pc = "return" /\ ~EarlierRuleMatches /\ RangeDetected)
    => /\ Get(intent.d, "intent") \in {PyStr("product_sales_trend"),
                                       PyStr("sales_growth_analysis"),
                                       PyStr("sales_trend_over_time")}
       /\ Get(intent.d.filters.d, "year_from") = _extract_year_range(Lower(question))[1]
       /\ Get(intent.d.filters.d, "year_to") = _extract_year_range(Lower(question))[2]

\* C19 witness: "2021 to 2024 comparison" names two years with comparison
\* wording, and the range rule answers before the comparison rule
C19_Witness ==
    /\ pc = "return"
    /\ question = "2021 to 2024 comparison"
    /\ ~EarlierRuleMatches
    /\ CompareRule(question, Lower(question))
    /\ Get(intent.d, "intent") = PyStr("sales_trend_over_time")
    /\ Get(intent.d, "filters") = PyDict([year_from |-> PyInt(2021), year_to |-> PyInt(2024)])

\* the year values of the filters: year, year_from, year_to and the elements
\* of years
YearValues ==
    ({Given(key) : key \in {"year", "year_from", "year_to"}} \ {None})
        \cup (IF IsList(Given("years"))
               THEN {Given("years").l[k] : k \in 1..Len(Given("years").l)}
               ELSE {})

\* C28: every year value the rule-based extractor places in filters (year,
\* each element of years, year_from, year_to) is an integer of 2015..2030,
\* and when year_from and year_to are both set, year_from <= year_to.
C28_YearsInRange ==
    pc = "return"
    => /\ \A v \in YearValues :
              IsInt(v) /\ IntVal(v) \in YearStart..(YearStop - 1)
       /\ (Given("year_from") # None /\ Given("year_to") # None)
              => IntVal(Given("year_from")) <= IntVal(Given("year_to"))

\* the values of year and years, which come from _extract_year and
\* _extract_two_years, are integers of 2015..2030, and years is ascending
C28_ScannedYearsInRange ==
    pc = "return"
    => /\ Given("year") # None
              => IsInt(Given("year")) /\ IntVal(Given("year")) \in YearStart..(YearStop - 1)
       /\ IsList(Given("years"))
              => /\ \A k \in 1..Len(Given("years").l) :
                        /\ IsInt(Given("years").l[k])
                        /\ IntVal(Given("years").l[k]) \in YearStart..(YearStop - 1)
                 /\ \A k \in 1..(Len(Given("years").l) - 1) :
                        IntVal(Given("years").l[k]) < IntVal(Given("years").l[k + 1])

\* the extractor's intent carries a non-blank filters.category
CategoryEmitted ==
    /\ pc = "return"
    /\ IsStr(Given("category"))
    /\ Strip(Given("category").s) # ""

\* p is a plan whose rows are those of the category of the intent: the
\* category is bound and the sql compares products.category with it,
\* case-insensitively
RestrictedToCategory(p) ==
    /\ p.raises = ""
    /\ "category" \in DOMAIN p.value.params
    /\ p.value.params["category"] = Given("category")
    /\ Contains(p.value.sql, "lower(p.category) = lower(:category)")

\* the intents whose branch of plan_intent reads filters.category
CategoryReaders ==
    {"sales_trend_over_time", "sales_growth_analysis", "sales_comparison_by_year",
     "multi_year_comparison", "total_sales_for_period", "sales_by_product"}

\* C29: for every intent the extractor emits with a non-blank
\* filters.category, the plan restricts the rows to that category (category
\* is bound and the sql holds the case-insensitive equality on
\* products.category), so the "(category X)" of the title is the scope of
\* the data queried.
C29_CategoryRestrictsPlan ==
    CategoryEmitted
    => /\ Contains(_derive_title(intent.d), "category " \o Given("category").s)
       /\ \A first \in HashOrders : RestrictedToCategory(plan_intent(intent.d, first))

\* the same for the intents whose branch reads filters.category
C29_CategoryRestrictsPlanWhereRead ==
    (CategoryEmitted /\ \E name \in CategoryReaders : IsStrOf(Get(intent.d, "intent"), name))
    => /\ Contains(_derive_title(intent.d), "category " \o Given("category").s)
       /\ \A first \in HashOrders : RestrictedToCategory(plan_intent(intent.d, first))

\* the other intents the extractor emits with a category are planned
\* without it
C29_CategoryUnreadElsewhere ==
    (CategoryEmitted /\ ~\E name \in CategoryReaders : IsStrOf(Get(intent.d, "intent"), name))
    => \A first \in HashOrders :
           /\ plan_intent(intent.d, first).raises = ""
           /\ "category" \notin DOMAIN plan_intent(intent.d, first).value.params

\* every intent of the extractor other than a product trend is planned,
\* whatever the order of the unordered dimension sets
C26_OtherStubIntentsPlan ==
    (pc = "return" /\ ~IsStrOf(Get(intent.d, "intent"), "product_sales_trend"))
    => \A first \in HashOrders : plan_intent(intent.d, first).raises = ""

----------------------------------------------------------------------------
(* Properties of _normalize_category                                       *)

\* s neither starts nor ends with whitespace, a quote or a trimmed character
Trimmed(s) ==
    \/ s = ""
    \/ /\ Ch(s, 1) \notin Whitespace \cup QuoteChars \cup TrimChars
       /\ Ch(s, Len(s)) \notin Whitespace \cup QuoteChars \cup TrimChars

\* every whitespace-separated word starts with no lower-case letter and
\* continues with no upper-case letter
WordsCapitalised(s) ==
    \A k \in 1..Len(Split(s)) :
        /\ Ch(Split(s)[k], 1) \notin LowerSet
        /\ \A j \in 2..Len(Split(s)[k]) : Ch(Split(s)[k], j) \notin UpperSet

\* C8: _normalize_category returns None, or a string without leading or
\* trailing whitespace, quote or trimmed punctuation whose words are
\* capitalised; " toyota " gives "Toyota".
C8_Normalized ==
    pc = "return"
    => /\ normalized = None \/ (Trimmed(normalized.s) /\ WordsCapitalised(normalized.s))
       /\ raw = PyStr(" toyota ") => normalized = PyStr("Toyota")

----------------------------------------------------------------------------
(* Properties of parse_intent inside the request                           *)

----------------------------------------------------------------------------
(* query() serving several requests at once                                *)
(*                                                                         *)
(* query is a plain def, so the framework runs each request on a thread of *)
(* its pool.  Every name query, _stub_parse, plan_intent and _derive_title *)
(* assign is a local of the call; the objects the requests share are       *)
(* settings and catalog.INTENTS.  pc, question, intent, plan, response,    *)
(* executions and reports are here functions of the request.  A step is    *)
(* one call of the handler: a call touches nothing but its own locals and  *)
(* the two shared objects, so a finer interleaving reaches no other state. *)

MaxRequests == 2

Requests == 1..MaxRequests

ConcQuestions == {"top 5 products in 2023", "overall", "trend 2020 to 2021 \" \""}

ConcInit ==
    /\ pc = [r \in Requests |-> "idle"]
    /\ question = [r \in Requests |-> ""]
    /\ settings \in {sc \in SettingsChoices : sc.llm_mode = "stub"}
    /\ hashfirst \in INTENTS["top_bottom_performers"].allowed_dimensions
    /\ catalog = INTENTS
    /\ intent = [r \in Requests |-> None]
    /\ plan = [r \in Requests |-> None]
    /\ response = [r \in Requests |-> None]
    /\ executions = [r \in Requests |-> 0]
    /\ reports = [r \in Requests |-> 0]
    /\ source = ""
    /\ failure = ""
    /\ raw = None
    /\ normalized = None

\* request r arrives with the question q
ConcReceive(r, q) ==
    /\ pc[r] = "idle"
    /\ question' = [question EXCEPT ![r] = q]
    /\ pc' = [pc EXCEPT ![r] = "parse_intent"]
    /\ UNCHANGED <<settings, intent, plan, response, executions, reports, hashfirst,
                   catalog, source, failure, raw, normalized>>

\* intent = parse_intent(req.question), which is _stub_parse in stub mode
ConcParseIntent(r) ==
    /\ pc[r] = "parse_intent"
    /\ intent' = [intent EXCEPT ![r] = PyDict(_stub_parse(question[r]))]
    /\ pc' = [pc EXCEPT ![r] = "plan_intent"]
    /\ UNCHANGED <<question, settings, plan, response, executions, reports, hashfirst,
                   catalog, source, failure, raw, normalized>>

\* plan_intent that takes its default dimension out of the shared catalog
\* (spec.allowed_dimensions.pop() for list(spec.allowed_dimensions)[0])
ConcPlanIntentPopping(r) ==
    /\ pc[r] = "plan_intent"
    /\ plan' = [plan EXCEPT ![r] = plan_intent(intent[r].d, hashfirst)]
    /\ catalog' = [catalog EXCEPT ![intent[r].d.intent.s].allowed_dimensions =
                        @ \ {ListFirst(@, hashfirst)}]
    /\ IF plan'[r].raises = ""
       THEN pc' = [pc EXCEPT ![r] = "execute"] /\ UNCHANGED <<response, reports>>
       ELSE /\ pc' = [pc EXCEPT ![r] = "done"]
            /\ response' = [response EXCEPT ![r] = ErrorReport("planner_error")]
            /\ reports' = [reports EXCEPT ![r] = @ + 1]
    /\ UNCHANGED <<question, settings, intent, executions, hashfirst, source,
                   failure, raw, normalized>>

\* plan = plan_intent(intent); a QueryPlannerError ends the request
ConcPlanIntent(r) ==
    /\ pc[r] = "plan_intent"
    /\ plan' = [plan EXCEPT ![r] = plan_intent(intent[r].d, hashfirst)]
    /\ IF plan'[r].raises = ""
       THEN pc' = [pc EXCEPT ![r] = "execute"] /\ UNCHANGED <<response, reports>>
       ELSE /\ pc' = [pc EXCEPT ![r] = "done"]
            /\ response' = [response EXCEPT ![r] = ErrorReport("planner_error")]
            /\ reports' = [reports EXCEPT ![r] = @ + 1]
    /\ UNCHANGED <<question, settings, intent, executions, hashfirst, catalog, source,
                   failure, raw, normalized>>

\* the rows are read and the response, with its derived title, is built
ConcExecute(r) ==
    /\ pc[r] = "execute"
    /\ executions' = [executions EXCEPT ![r] = @ + 1]
    /\ \E rows \in ResultRows(plan[r].value) :
         response' = [response EXCEPT ![r] = QueryResponse(intent[r].d, plan[r].value, rows)]
    /\ pc' = [pc EXCEPT ![r] = "done"]
    /\ UNCHANGED <<question, settings, intent, plan, reports, hashfirst, catalog, source,
                   failure, raw, normalized>>

ConcSpec ==
    ConcInit /\ [][\E r \in Requests :
                      \/ \E q \in ConcQuestions : ConcReceive(r, q)
                      \/ ConcParseIntent(r)
                      \/ ConcPlanIntent(r)
                      \/ ConcExecute(r)]_vars

\* what a request with the question q gives when it is processed alone
SoloIntent == [q \in ConcQuestions |-> PyDict(_stub_parse(q))]

SoloPlan ==
    [q \in ConcQuestions |->
        [first \in INTENTS["top_bottom_performers"].allowed_dimensions |->
            plan_intent(SoloIntent[q].d, first)]]

SoloTitle == [q \in ConcQuestions |-> _derive_title(SoloIntent[q].d)]

PlanningFailed == plan # None /\ plan.raises # ""

\* C23: the executor is invoked at most once per request and only after
\* plan_intent has returned a plan; a planning error ends the request with a
\* planner_error report and no execution; an execution failure ends it with
\* exactly one db_error report and no retry.
C23_SingleExecution ==
    /\ executions <= 1
    /\ reports <= 1
    /\ executions = 1 => (plan # None /\ plan.raises = "")
    /\ (pc = "done" /\ PlanningFailed)
       => (response = ErrorReport("planner_error") /\ executions = 0 /\ reports = 1)
    /\ (pc = "done" /\ response = ErrorReport("db_error"))
       => (executions = 1 /\ reports = 1)

\* the same, with the report asked only of the planning errors plan_intent
\* raises as QueryPlannerError
C23_SingleExecutionOfPlannerErrors ==
    /\ executions <= 1
    /\ reports <= 1
    /\ executions = 1 => (plan # None /\ plan.raises = "")
    /\ PlanningFailed => executions = 0
    /\ (pc = "done" /\ PlanningFailed /\ plan.raises = "QueryPlannerError")
       => (response = ErrorReport("planner_error") /\ reports = 1)
    /\ (pc = "done" /\ response = ErrorReport("db_error"))
       => (executions = 1 /\ reports = 1)

\* C26: for every question, plan_intent accepts the intent the rule-based
\* extractor returns: plan_intent(_stub_parse(question)) raises no validation
\* or planning error, so a request served by the rule-based path can fail
\* only at execution.
C26_StubIntentPlans ==
    (source = "stub" /\ plan # None)
    => (plan.raises = "" /\ (pc = "done" => response.status = "200" \/ executions = 1))

\* the request's intent is a well-formed clarification_required payload that
\* plan_intent has been called on
ClarificationPlanned ==
    /\ pc \in {"execute", "done"}
    /\ IsDict(intent)
    /\ IsStrOf(Get(intent.d, "intent"), "clarification_required")
    /\ WellFormed("clarification_required")

\* C15: when the parsed intent is clarification_required, whatever its
\* filters and whatever rows the database holds, the plan has no parameters
\* and selects no rows, and the request is answered with labels [] and
\* datasets [] and not with an error, unless the executor itself fails.
C15_ClarificationEmpty ==
    ClarificationPlanned
    => /\ plan.raises = ""
       /\ plan.value.params = EmptyMap
       /\ ResultRows(plan.value) = {<<>>}
       /\ pc = "done"
          => \/ response = ErrorReport("db_error")
             \/ /\ response.status = "200"
                /\ response.labels = <<>>
                /\ response.datasets = <<>>

\* C15 witness: a clarification_required intent with a year filter and the
\* chart hint pie, from the remote service, is answered with an empty chart
C15_Witness ==
    /\ ClarificationPlanned
    /\ pc = "done"
    /\ source = "remote"
    /\ Get(Get(intent.d, "filters").d, "year") = PyInt(2020)
    /\ response.status = "200"
    /\ response.labels = <<>>
    /\ response.datasets = <<>>
    /\ executions = 1

\* C1: whatever step of the remote path fails, parse_intent raises nothing
\* and returns _stub_parse(question).
C1_SilentFallback ==
    failure # "" => (source = "stub" /\ intent = PyDict(_stub_parse(question)))

\* C2: a JSON object of the remote service that does not match the Intent
\* shape (intent a catalog name, metrics and dimensions lists of allowed
\* names, filters a map) is not returned by parse_intent.
C2_RemoteOutputShaped ==
    source = "remote"
    => /\ IsStr(Get(intent.d, "intent"))
       /\ Get(intent.d, "intent").s \in IntentNames
       /\ WellFormed(Get(intent.d, "intent").s)

\* C3: every request completes, even when the remote call never returns.
C3_RequestCompletes == (pc = "parse_intent") ~> (pc = "done")

====
